---------------------------- MODULE Spec2Model ----------------------------
(***************************************************************************)
(* A model of the lead-generation pipeline of                              *)
(* src/eran-python-automation-newbranch: the campaign splitter (utils.py), *)
(* the paginated contact fetcher (apollo.py), the deduplication step of    *)
(* the orchestrator (main.py, logger.py), the batched uploader             *)
(* (instantly.py) and the verification batcher (reoon.py).                 *)
(*                                                                         *)
(* Encoding of values.  A contact is identified by its email, and an email *)
(* is an integer: 0 is the empty or missing email, k > 0 is an address     *)
(* written in lower case, and -k is the same address written with upper    *)
(* case letters (so str.lower maps -k and k to k).                         *)
(***************************************************************************)
EXTENDS Integers, Sequences, FiniteSets, TLC

(***************************************************************************)
(* Generic helpers on sequences.                                           *)
(***************************************************************************)
Range(s) == {s[i] : i \in 1..Len(s)}

Min(a, b) == IF a < b THEN a ELSE b

\* s[i:j] of Python for 0 <= i: the elements at 0-based positions i..j-1.
Slice(s, i, j) == SubSeq(s, i + 1, Min(j, Len(s)))

\* The list <<lo, lo+1, ..., hi>>.
Iota(lo, hi) == [i \in 1..(hi - lo + 1) |-> lo + i - 1]

\* The number of occurrences of v in s.
Count(s, v) == Cardinality({i \in 1..Len(s) : s[i] = v})

RECURSIVE SeqsUpTo(_, _)
\* All sequences over S of length at most n.
SeqsUpTo(S, n) ==
    IF n = 0 THEN {<<>>}
    ELSE LET shorter == SeqsUpTo(S, n - 1)
         IN  shorter \cup {Append(s, x) : s \in shorter, x \in S}

(***************************************************************************)
(* IEEE-754 binary64 arithmetic, as far as utils.py line 20 needs it:      *)
(*     split_index = int(len(contacts) * (primary_percent / 100))          *)
(* A float is [m, e]: the bits m (most significant first) of an integer M  *)
(* and an exponent e, standing for M * 2^e.  int / int is the correctly    *)
(* rounded quotient, int * float the correctly rounded product, int() the  *)
(* truncation.  Rounding is to nearest, ties to even, at 53 bits.          *)
(***************************************************************************)
MantissaBits == 53

\* The w-bit binary numeral of n, most significant bit first (n < 2^w).
NatToBitsWide(n, w) == [i \in 1..w |-> (n \div 2^(w - i)) % 2]

\* The bits b without their leading zeros.
StripZeros(b) ==
    IF \A i \in 1..Len(b) : b[i] = 0 THEN <<>>
    ELSE LET first == CHOOSE i \in 1..Len(b) :
                          b[i] = 1 /\ \A j \in 1..(i - 1) : b[j] = 0
         IN  SubSeq(b, first, Len(b))

\* The binary numeral of n, 0 <= n < 2^30; <<>> for 0.
NatToBits(n) == StripZeros(NatToBitsWide(n, 30))

RECURSIVE BitsToNat(_)
\* The integer whose binary numeral is b (at most 30 bits).
BitsToNat(b) ==
    IF b = <<>> THEN 0
    ELSE IF Len(b) = 1 THEN b[1]
    ELSE LET h == Len(b) \div 2
         IN  BitsToNat(SubSeq(b, 1, h)) * 2^(Len(b) - h)
                 + BitsToNat(SubSeq(b, h + 1, Len(b)))

\* The numeral of the integer of b, plus one.
IncBits(b) ==
    IF \A i \in 1..Len(b) : b[i] = 1 THEN <<1>> \o [i \in 1..Len(b) |-> 0]
    ELSE LET last == CHOOSE i \in 1..Len(b) :
                         b[i] = 0 /\ \A j \in (i + 1)..Len(b) : b[j] = 1
         IN  [i \in 1..Len(b) |->
                 IF i < last THEN b[i] ELSE IF i = last THEN 1 ELSE 0]

RECURSIVE Pow2Mod(_, _)
\* 2^k mod d, by repeated squaring (d * d stays below 2^31).
Pow2Mod(k, d) ==
    IF k = 0 THEN 1 % d
    ELSE LET h == Pow2Mod(k \div 2, d)
         IN  (((h * h) % d) * (IF k % 2 = 1 THEN 2 ELSE 1)) % d

\* What is left of r after k bits of the long division r / d: r * 2^k mod d.
FracRem(r, d, k) == (r * Pow2Mod(k, d)) % d

\* The first k bits after the binary point of r / d, for 0 <= r < d.
FracBits(r, d, k) == [i \in 1..k |-> (2 * FracRem(r, d, i - 1)) \div d]

RECURSIVE LeadZeros(_, _)
\* The number of zero bits right after the binary point of r / d, 0 < r < d.
LeadZeros(r, d) == IF 2 * r >= d THEN 0 ELSE 1 + LeadZeros(2 * r, d)

\* Round to nearest, ties to even: the bits `kept` given that the bits
\* `dropped` follow them.
RoundBits(kept, dropped) ==
    LET half == dropped # <<>> /\ dropped[1] = 1
        more == \E i \in 2..Len(dropped) : dropped[i] = 1
        up   == half /\ (more \/ kept[Len(kept)] = 1)
    IN  IF up THEN IncBits(kept) ELSE kept

\* a / b of Python for integers a >= 0, b > 0 (float true division): the
\* quotient rounded to 53 significant bits.
TrueDiv(a, b) ==
    IF a = 0 THEN [m |-> <<>>, e |-> 0]
    ELSE LET ib   == NatToBits(a \div b)
             z    == IF ib = <<>> THEN LeadZeros(a % b, b) ELSE 0
             k    == z + MantissaBits - Len(ib)
             fb   == FracBits(a % b, b, k)
             kept == ib \o SubSeq(fb, z + 1, k)
             rem  == FracRem(a % b, b, k)
             up   == 2 * rem > b \/ (2 * rem = b /\ kept[Len(kept)] = 1)
         IN  [m |-> IF up THEN IncBits(kept) ELSE kept, e |-> -k]

\* Multiplication works on chunks of 16 bits, so that chunk * n + carry stays
\* below 2^31 for n < 2^14.
ChunkBits == 16

RECURSIVE MulBits(_, _, _)
\* The bits of n * (the integer of b) + carry.
MulBits(b, n, carry) ==
    IF b = <<>> THEN NatToBits(carry)
    ELSE LET w  == Min(ChunkBits, Len(b))
             lo == BitsToNat(SubSeq(b, Len(b) - w + 1, Len(b)))
             t  == lo * n + carry
         IN  MulBits(SubSeq(b, 1, Len(b) - w), n, t \div 2^w)
                 \o NatToBitsWide(t % 2^w, w)

\* n * f of Python for an integer 0 <= n < 2^14 and a float f >= 0: the
\* product rounded to 53 significant bits.
MulIntFloat(n, f) ==
    LET p == StripZeros(MulBits(f.m, n, 0))
        d == Len(p) - MantissaBits
    IN  IF d <= 0 THEN [m |-> p, e |-> f.e]
        ELSE [m |-> RoundBits(SubSeq(p, 1, MantissaBits),
                              SubSeq(p, MantissaBits + 1, Len(p))),
              e |-> f.e + d]

\* int(f) of Python for a float 0 <= f < 2^30: truncation.
FloatToInt(f) ==
    IF f.e >= 0 THEN BitsToNat(f.m \o [i \in 1..f.e |-> 0])
    ELSE IF Len(f.m) + f.e <= 0 THEN 0
    ELSE BitsToNat(SubSeq(f.m, 1, Len(f.m) + f.e))

\* utils.py line 20.
SplitIndex(n, primary_percent) ==
    FloatToInt(MulIntFloat(n, TrueDiv(primary_percent, 100)))

(***************************************************************************)
(* State.  Each component of the pipeline has its own variables; a         *)
(* specification of one component leaves the others idle.                  *)
(***************************************************************************)
VARIABLES
    \* utils.split_contacts
    contacts,         \* the caller's list object passed as `contacts`
    primary_percent,  \* the argument primary_percent
    split_pc,         \* "call", "returned" or "raised"
    split_return,     \* the returned dict, or NoReturn
    split_shuffled,   \* whether random.shuffle has run
    split_input,      \* the caller's list as it was at the call
    \* apollo.fetch_all_contacts_from_list
    apollo_env,       \* APOLLO_API_KEY, APOLLO_LIST_ID, TEST_MODE_PAGES
    page,             \* the local page
    all_contacts,     \* the local all_contacts
    fetch_pc,         \* "call", "loop", "returned" or "raised"
    fetch_return,     \* the returned list, or NoReturn
    requests,         \* the page requests made so far, with their answers
    \* main.run_automation_flow, steps 1 to 3, and the log store
    processed_sheet,      \* column 1 of the 'Processed Leads' sheet, no header
    processed_emails,     \* the local processed_emails
    all_apollo_contacts,  \* the local all_apollo_contacts
    new_contacts,         \* the local new_contacts
    counts,               \* the local counts
    run_pc,               \* the step of run_automation_flow reached
    \* instantly.push_to_instantly
    instantly_env,    \* INSTANTLY_API_KEY and the two campaign ids
    contacts_split,   \* the argument contacts_split
    batch_size,       \* the argument batch_size
    push_pc,          \* "call", "loop", "returned" or "raised"
    push_at,          \* the campaign and the offset i of the next batch
    total_uploaded,   \* the local total_uploaded
    push_return,      \* the returned count, or NoReturn
    uploads,          \* the upload requests made so far, with their answers
    \* reoon.verify_emails
    reoon_api_key,    \* whether REOON_API_KEY is set
    verify_contacts,  \* the argument contacts
    verify_pc,        \* "call", "submit", "poll", "returned" or "raised"
    verify_i,         \* the offset i of the batch loop
    attempt,          \* the polls of the current task not answered completed
    polling,          \* the result polls of the last task and the seconds
                      \* slept before them
    valid_contacts,   \* the local valid_contacts
    invalid_contacts, \* the local invalid_contacts
    verify_return,    \* the returned pair of lists, or NoReturn
    verify_error,     \* why the call raised, or "none"
    submitted,        \* the batches submitted so far
    verified,         \* the results processed so far
    \* instantly.delete_finished_leads
    cleanup_env,      \* INSTANTLY_API_KEY and the two campaign ids
    cleanup_pc,       \* "call", "list", "remove", "returned" or "raised"
    campaign_at,      \* the position in campaign_ids of the campaign at work
    starting_after,   \* the cursor of the next list request
    emails_to_delete, \* the emails accumulated for the campaign at work
    delete_at,        \* the offset i of the removal loop
    deleted_count,    \* the local deleted_count
    cleanup_return,   \* the returned count, or NoReturn
    cleanup_requests, \* the list and removal requests made so far
    \* main.run_automation_flow
    flow_env,         \* the environment of the run
    flow_pc,          \* the stage the run is at, "end" after the run
    sheet_manager,    \* whether sheet_manager is assigned
    flow_contacts,    \* processed_emails, all_apollo_contacts, new_contacts,
                      \* valid_contacts, invalid_contacts and split_data
    flow_counts,      \* the local counts
    flow_trace,       \* the stages invoked so far
    raised_at,        \* the length of flow_trace when a stage raised, or 0
    flow_faults,      \* the services that have answered with a failure
    requested,        \* the services a request was made to
    summaries,        \* the rows appended to the Log sheet
    notified,         \* the calls of send_error_email
    flow_outcome      \* "running", "returned" or "raised"

SplitVars == <<contacts, primary_percent, split_pc, split_return,
               split_shuffled, split_input>>

FetchVars == <<apollo_env, page, all_contacts, fetch_pc, fetch_return,
               requests>>

DedupeVars == <<processed_sheet, processed_emails, all_apollo_contacts,
                new_contacts, counts, run_pc>>

PushVars == <<instantly_env, contacts_split, batch_size, push_pc, push_at,
              total_uploaded, push_return, uploads>>

VerifyVars == <<reoon_api_key, verify_contacts, verify_pc, verify_i, attempt,
                polling, valid_contacts, invalid_contacts, verify_return,
                verify_error, submitted, verified>>

CleanupVars == <<cleanup_env, cleanup_pc, campaign_at, starting_after,
                 emails_to_delete, delete_at, deleted_count, cleanup_return,
                 cleanup_requests>>

FlowVars == <<flow_env, flow_pc, sheet_manager, flow_contacts, flow_counts,
              flow_trace, raised_at, flow_faults, requested, summaries,
              notified, flow_outcome>>

vars == <<SplitVars, FetchVars, DedupeVars, PushVars, VerifyVars,
          CleanupVars, FlowVars>>

NoReturn == [none |-> TRUE]

(***************************************************************************)
(* utils.py: split_contacts.                                               *)
(***************************************************************************)
\* The most contacts in a list of pairwise different contacts the splitter is
\* given.
MaxSplitLen == 3

\* The longest list of equal contacts the splitter is given.
MaxUniformLen == 50

\* The lists handed to split_contacts: every list of pairwise different
\* contacts out of 1..MaxSplitLen, and the lists of up to MaxUniformLen copies
\* of one contact.
SplitInputs ==
    {s \in SeqsUpTo(1..MaxSplitLen, MaxSplitLen) :
        \A i, j \in 1..Len(s) : s[i] = s[j] => i = j}
        \cup {[i \in 1..n |-> 1] : n \in 0..MaxUniformLen}

\* The values of primary_percent: 0..100 and one value beyond each end.
SplitPercents == (0 - 1)..101

\* The outcomes of random.shuffle(s): every arrangement of the elements of s.
Shuffles(s) ==
    {t \in [1..Len(s) -> Range(s)] :
        \A v \in Range(s) : Count(t, v) = Count(s, v)}

\* A range check that forgets the lower end.
PercentInRange_NoLowerEnd(percent) == percent <= 100

\* utils.py line 15: the range check.
PercentInRange(percent) == 0 <= percent /\ percent <= 100

\* Slices that skip the contact at split_index.
SplitGroups_SkipOne(shuffled, split_index) ==
    [campaign_a |-> Slice(shuffled, 0, split_index),
     campaign_b |-> Slice(shuffled, split_index + 1, Len(shuffled))]

\* utils.py lines 22-25: the two slices of the shuffled list.
SplitGroups(shuffled, split_index) ==
    [campaign_a |-> Slice(shuffled, 0, split_index),
     campaign_b |-> Slice(shuffled, split_index, Len(shuffled))]

SplitInit ==
    /\ contacts \in SplitInputs
    /\ primary_percent \in SplitPercents
    /\ split_pc = "call"
    /\ split_return = NoReturn
    /\ split_shuffled = FALSE
    /\ split_input = contacts

SplitIdle ==
    /\ contacts = <<>>
    /\ primary_percent = 0
    /\ split_pc = "idle"
    /\ split_return = NoReturn
    /\ split_shuffled = FALSE
    /\ split_input = <<>>

\* utils.py lines 15-16: the percentage is out of range, ValueError.
SplitContactsRaise ==
    /\ split_pc = "call"
    /\ ~PercentInRange(primary_percent)
    /\ split_pc' = "raised"
    /\ UNCHANGED <<contacts, primary_percent, split_return, split_shuffled,
                   split_input>>
    /\ UNCHANGED <<FetchVars, DedupeVars, PushVars, VerifyVars,
                   CleanupVars, FlowVars>>

\* utils.py lines 18-25: shuffle in place, slice at split_index, return.
SplitContactsReturn ==
    /\ split_pc = "call"
    /\ PercentInRange(primary_percent)
    /\ LET split_index == SplitIndex(Len(contacts), primary_percent)
       IN  \E shuffled \in Shuffles(contacts) :
               /\ contacts' = shuffled
               /\ split_return' = SplitGroups(shuffled, split_index)
    /\ split_shuffled' = TRUE
    /\ split_pc' = "returned"
    /\ UNCHANGED <<primary_percent, split_input>>
    /\ UNCHANGED <<FetchVars, DedupeVars, PushVars, VerifyVars,
                   CleanupVars, FlowVars>>

(***************************************************************************)
(* apollo.py: fetch_all_contacts_from_list.                                *)
(*                                                                         *)
(* A page of the source is a list of records; what the model keeps of a    *)
(* record is whether it carries an email and whether its organization is   *)
(* an object or null.  The record at position i of page k carries the      *)
(* email (k - 1) * per_page + i: the source lists each contact at one      *)
(* place, and answers a repeated request for a page with the same          *)
(* contacts.  The organization of a record without email is never read.    *)
(***************************************************************************)
\* The most records on a page the source answers with.
MaxPageLen == 2

\* The most page requests of one fetch.
MaxRequests == 3

\* The largest TEST_MODE_PAGES.
MaxPageCap == 2

\* apollo.py line 46: "per_page": 100.
PerPage == 100

\* apollo.py line 92: the cooldown after HTTP 429, in seconds.
RateLimitWait == 900

\* apollo.py line 88: the delay after a page, in seconds.
PageDelay == 1

\* The HTTP error statuses, other than 429, the source answers with.
OtherHttpErrors == {404, 500}

\* A transport failure (requests raises; there is no status).
TransportError == 0

\* TEST_MODE_PAGES: <<>> when unset or empty, <<c>> when set to c.
PageCaps == {<<>>} \cup {<<c>> : c \in 0..MaxPageCap}

\* APOLLO_LIST_ID: unset, the placeholder of the template, or a list id.
ListIds == {"", "REPLACE_WITH_LIST_ID", "list"}

\* The shapes of a record: without email, or with an email and an
\* organization that is an object (or absent) or null.
RecordShapes ==
    {[has_email |-> FALSE, organization |-> "object"],
     [has_email |-> TRUE, organization |-> "object"],
     [has_email |-> TRUE, organization |-> "null"]}

\* The pages the source answers with: the shape of each record.
PageAnswers == SeqsUpTo(RecordShapes, MaxPageLen)

\* The email of the record at position i of page k (0: none).
EmailAt(k, i, has_email) == IF has_email THEN (k - 1) * PerPage + i ELSE 0

\* The records of page k.
PageRecords(k, answer) ==
    [i \in 1..Len(answer) |->
        [email |-> EmailAt(k, i, answer[i].has_email),
         organization |-> answer[i].organization]]

RECURSIVE WithEmail(_)
\* apollo.py lines 70-82: the emails of the records that carry one, in order.
WithEmail(records) ==
    IF records = <<>> THEN <<>>
    ELSE (IF records[1].email # 0 THEN <<records[1].email>> ELSE <<>>)
             \o WithEmail(Tail(records))

\* apollo.py lines 71 and 77: contact.get('organization', {}) is None for a
\* null organization, and None.get raises AttributeError.
RecordRaises(record) == record.email # 0 /\ record.organization = "null"

\* apollo.py lines 70-82: the records handled before one raises (all of them
\* when none does).
RecordsHandled(records) ==
    LET raising == {i \in 1..Len(records) : RecordRaises(records[i])}
    IN  IF raising = {} THEN records
        ELSE SubSeq(records, 1,
                    (CHOOSE i \in raising : \A j \in raising : i <= j) - 1)

\* apollo.py lines 20-24: the credentials are missing or a placeholder.
ApolloMisconfigured(env) ==
    \/ ~env.api_key
    \/ env.list_id = ""
    \/ env.list_id = "REPLACE_WITH_LIST_ID"

\* A page limit that lets one page more through.
CapReached_OnePageLate(env, pg) ==
    env.test_mode_pages # <<>> /\ pg > env.test_mode_pages[1] + 1

\* apollo.py line 41: the test-mode page limit is passed.
CapReached(env, pg) ==
    env.test_mode_pages # <<>> /\ pg > env.test_mode_pages[1]

\* A page that ends the fetch, were the fetch to stop at a page without any
\* email.
EndOfList_NoEmails(contacts_on_page) == WithEmail(contacts_on_page) = <<>>

\* apollo.py line 65: `if not contacts_on_page`.
EndOfList(contacts_on_page) == contacts_on_page = <<>>

\* A retry that moves on to the next page.
PageAfterRateLimit_Advance(pg) == pg + 1

\* apollo.py line 95: `continue` retries the same page.
PageAfterRateLimit(pg) == pg

FetchInit ==
    /\ apollo_env \in [api_key : BOOLEAN, list_id : ListIds,
                       test_mode_pages : PageCaps]
    /\ page = 0
    /\ all_contacts = <<>>
    /\ fetch_pc = "call"
    /\ fetch_return = NoReturn
    /\ requests = <<>>

FetchIdle ==
    /\ apollo_env = [api_key |-> TRUE, list_id |-> "list",
                     test_mode_pages |-> <<>>]
    /\ page = 0
    /\ all_contacts = <<>>
    /\ fetch_pc = "idle"
    /\ fetch_return = NoReturn
    /\ requests = <<>>

\* apollo.py lines 10-24: the credentials are refused, ValueError.
FetchRefused ==
    /\ fetch_pc = "call"
    /\ ApolloMisconfigured(apollo_env)
    /\ fetch_pc' = "raised"
    /\ UNCHANGED <<apollo_env, page, all_contacts, fetch_return, requests>>
    /\ UNCHANGED <<SplitVars, DedupeVars, PushVars, VerifyVars,
                   CleanupVars, FlowVars>>

\* apollo.py lines 10-38: the credentials pass, the loop is entered.
FetchBegin ==
    /\ fetch_pc = "call"
    /\ ~ApolloMisconfigured(apollo_env)
    /\ page' = 1
    /\ all_contacts' = <<>>
    /\ fetch_pc' = "loop"
    /\ UNCHANGED <<apollo_env, fetch_return, requests>>
    /\ UNCHANGED <<SplitVars, DedupeVars, PushVars, VerifyVars,
                   CleanupVars, FlowVars>>

\* apollo.py lines 41-43 and 109-114: the page limit is passed, return.
FetchCapReached ==
    /\ fetch_pc = "loop"
    /\ CapReached(apollo_env, page)
    /\ fetch_pc' = "returned"
    /\ fetch_return' = all_contacts
    /\ UNCHANGED <<apollo_env, page, all_contacts, requests>>
    /\ UNCHANGED <<SplitVars, DedupeVars, PushVars, VerifyVars,
                   CleanupVars, FlowVars>>

\* The loop makes a request: the limit is not passed.
FetchRequests ==
    /\ fetch_pc = "loop"
    /\ ~CapReached(apollo_env, page)
    /\ Len(requests) < MaxRequests

\* apollo.py lines 45-88 and 106-114: the page is answered with 200.  An
\* empty page ends the fetch; otherwise the records with an email are kept,
\* up to one whose organization is null, where the fetch raises; after the
\* last record the next page follows after the delay.
FetchPage ==
    /\ FetchRequests
    /\ \E answer \in PageAnswers :
         LET contacts_on_page == PageRecords(page, answer)
             handled == RecordsHandled(contacts_on_page)
             kept == all_contacts \o WithEmail(handled)
         IN  IF EndOfList(contacts_on_page)
             THEN /\ requests' = Append(requests,
                        [page |-> page, status |-> 200,
                         records |-> contacts_on_page, waited |-> 0,
                         held |-> all_contacts])
                  /\ fetch_pc' = "returned"
                  /\ fetch_return' = all_contacts
                  /\ UNCHANGED <<page, all_contacts>>
             ELSE IF handled # contacts_on_page
             THEN /\ requests' = Append(requests,
                        [page |-> page, status |-> 200,
                         records |-> contacts_on_page, waited |-> 0,
                         held |-> kept])
                  /\ all_contacts' = kept
                  /\ fetch_pc' = "raised"
                  /\ UNCHANGED <<page, fetch_return>>
             ELSE /\ requests' = Append(requests,
                        [page |-> page, status |-> 200,
                         records |-> contacts_on_page, waited |-> PageDelay,
                         held |-> kept])
                  /\ all_contacts' = kept
                  /\ page' = page + 1
                  /\ UNCHANGED <<fetch_pc, fetch_return>>
    /\ UNCHANGED apollo_env
    /\ UNCHANGED <<SplitVars, DedupeVars, PushVars, VerifyVars,
                   CleanupVars, FlowVars>>

\* apollo.py lines 90-95: the page is answered with 429; sleep, then retry.
FetchRateLimited ==
    /\ FetchRequests
    /\ requests' = Append(requests,
           [page |-> page, status |-> 429, records |-> <<>>,
            waited |-> RateLimitWait, held |-> all_contacts])
    /\ page' = PageAfterRateLimit(page)
    /\ UNCHANGED <<apollo_env, all_contacts, fetch_pc, fetch_return>>
    /\ UNCHANGED <<SplitVars, DedupeVars, PushVars, VerifyVars,
                   CleanupVars, FlowVars>>

\* apollo.py lines 90-104: any other HTTP error status is raised.
FetchHttpError ==
    /\ FetchRequests
    /\ \E status \in OtherHttpErrors :
           requests' = Append(requests,
               [page |-> page, status |-> status, records |-> <<>>,
                waited |-> 0, held |-> all_contacts])
    /\ fetch_pc' = "raised"
    /\ UNCHANGED <<apollo_env, page, all_contacts, fetch_return>>
    /\ UNCHANGED <<SplitVars, DedupeVars, PushVars, VerifyVars,
                   CleanupVars, FlowVars>>

\* A transport failure after which the loop goes on with the same page.
FetchTransportError_Retry ==
    /\ FetchRequests
    /\ requests' = Append(requests,
           [page |-> page, status |-> TransportError, records |-> <<>>,
            waited |-> 0, held |-> all_contacts])
    /\ UNCHANGED <<apollo_env, page, all_contacts, fetch_pc, fetch_return>>
    /\ UNCHANGED <<SplitVars, DedupeVars, PushVars, VerifyVars,
                   CleanupVars, FlowVars>>

\* apollo.py lines 106-107: any other exception of the request is raised.
FetchTransportError ==
    /\ FetchRequests
    /\ requests' = Append(requests,
           [page |-> page, status |-> TransportError, records |-> <<>>,
            waited |-> 0, held |-> all_contacts])
    /\ fetch_pc' = "raised"
    /\ UNCHANGED <<apollo_env, page, all_contacts, fetch_return>>
    /\ UNCHANGED <<SplitVars, DedupeVars, PushVars, VerifyVars,
                   CleanupVars, FlowVars>>

(***************************************************************************)
(* main.py, steps 1 to 3 of run_automation_flow, with logger.py:           *)
(* reading the processed emails, taking the fetched contacts, and          *)
(* deduplicating.  The emails of this part come in both spellings.         *)
(***************************************************************************)
\* The number of different addresses of the deduplication inputs.
MaxAddresses == 2

\* The longest fetched list of the deduplication inputs.
MaxFetched == 2

\* The emails of the deduplication inputs: each address in lower case (k) and
\* with upper case letters (-k).
DedupeEmails == {k : k \in 1..MaxAddresses} \cup {0 - k : k \in 1..MaxAddresses}

\* str.lower() of an email.
Lower(email) == IF email < 0 THEN 0 - email ELSE email

\* logger.py lines 17-42: the attributes GoogleSheetManager.__init__ assigns.
SheetManagerAttributes == {"log_sheet"}

\* logger.py lines 44-53: get_processed_emails.  Reading
\* self.processed_sheet raises AttributeError when __init__ assigned no such
\* attribute; the except clause prints the warning and returns set().
GetProcessedEmails(sheet) ==
    IF "processed_sheet" \in SheetManagerAttributes
    THEN Range(sheet)
    ELSE {}

\* main.py line 41: the condition of the deduplication comprehension.
IsNew(email, processed) == email # 0 /\ Lower(email) \notin processed

\* main.py lines 40-42: the comprehension.
NewContacts(fetched, processed) ==
    SelectSeq(fetched, LAMBDA c : IsNew(c, processed))

DedupeInit ==
    /\ processed_sheet \in SeqsUpTo(DedupeEmails, MaxAddresses)
    /\ processed_emails = {}
    /\ all_apollo_contacts = <<>>
    /\ new_contacts = <<>>
    /\ counts = [fetched |-> 0, new |-> 0]
    /\ run_pc = "get_processed"

DedupeIdle ==
    /\ processed_sheet = <<>>
    /\ processed_emails = {}
    /\ all_apollo_contacts = <<>>
    /\ new_contacts = <<>>
    /\ counts = [fetched |-> 0, new |-> 0]
    /\ run_pc = "idle"

\* main.py line 33: processed_emails = sheet_manager.get_processed_emails().
RunGetProcessedEmails ==
    /\ run_pc = "get_processed"
    /\ processed_emails' = GetProcessedEmails(processed_sheet)
    /\ run_pc' = "fetch"
    /\ UNCHANGED <<processed_sheet, all_apollo_contacts, new_contacts, counts>>
    /\ UNCHANGED <<SplitVars, FetchVars, PushVars, VerifyVars,
                   CleanupVars, FlowVars>>

\* main.py lines 36-37: the fetcher returns its contacts, each with a
\* non-empty email.
RunFetch ==
    /\ run_pc = "fetch"
    /\ \E fetched \in SeqsUpTo(DedupeEmails, MaxFetched) :
           /\ all_apollo_contacts' = fetched
           /\ counts' = [counts EXCEPT !.fetched = Len(fetched)]
    /\ run_pc' = "dedupe"
    /\ UNCHANGED <<processed_sheet, processed_emails, new_contacts>>
    /\ UNCHANGED <<SplitVars, FetchVars, PushVars, VerifyVars,
                   CleanupVars, FlowVars>>

\* main.py lines 40-44: deduplicate.
RunDedupe ==
    /\ run_pc = "dedupe"
    /\ new_contacts' = NewContacts(all_apollo_contacts, processed_emails)
    /\ counts' = [counts EXCEPT
                      !.new = Len(NewContacts(all_apollo_contacts,
                                              processed_emails))]
    /\ run_pc' = "deduped"
    /\ UNCHANGED <<processed_sheet, processed_emails, all_apollo_contacts>>
    /\ UNCHANGED <<SplitVars, FetchVars, PushVars, VerifyVars,
                   CleanupVars, FlowVars>>

(***************************************************************************)
(* instantly.py: push_to_instantly.                                        *)
(***************************************************************************)
\* The most contacts in a group of the small upload inputs.
MaxUploadContacts == 3

\* The largest batch_size of the small upload inputs.
MaxBatchSize == 2

\* The size of the large group, uploaded with the default batch size.
LargeGroupLen == 250

\* instantly.py line 9: the default of batch_size.
DefaultBatchSize == 100

\* The status codes the destination answers an upload with.
UploadStatuses == {200, 201, 400, 500}

\* A request that raised instead of answering.
UploadException == 0

\* instantly.py lines 29-32 and 39: the keys of the groups, in the order of
\* the dict that split_contacts builds.
CampaignKeys == <<"campaign_a", "campaign_b">>

\* The two groups holding contacts 1..na and na+1..na+nb.
GroupsOf(na, nb) ==
    [campaign_a |-> Iota(1, na), campaign_b |-> Iota(na + 1, na + nb)]

\* The calls of push_to_instantly: small groups with small batch sizes, and
\* one large group with the default batch size.
PushInputs ==
    {[split |-> GroupsOf(na, nb), batch_size |-> bs] :
        na \in 0..MaxUploadContacts, nb \in 0..MaxUploadContacts,
        bs \in 1..MaxBatchSize}
    \cup {[split |-> GroupsOf(LargeGroupLen, nb),
           batch_size |-> DefaultBatchSize] : nb \in 0..1}

\* instantly.py lines 29-32 and 40: campaign_ids.get(campaign_key), as
\* whether it is a non-empty id.
CampaignIdSet(env, key) ==
    IF key = "campaign_a" THEN env.campaign_primary_id
    ELSE IF key = "campaign_b" THEN env.campaign_secondary_id
    ELSE FALSE

\* instantly.py line 33: the credential check.
InstantlyMisconfigured(env) ==
    \/ ~env.api_key
    \/ ~(env.campaign_primary_id /\ env.campaign_secondary_id)

RECURSIVE NextBatch(_, _, _, _, _)
\* instantly.py lines 39-54: from offset i of campaign number k on, the next
\* batch the loops reach: campaigns without an id or without contacts are
\* skipped.  Campaign Len(CampaignKeys) + 1 stands for the end of the loops.
NextBatch(split, env, size, k, i) ==
    IF k > Len(CampaignKeys) THEN [campaign |-> k, i |-> 0]
    ELSE IF \/ ~CampaignIdSet(env, CampaignKeys[k])
            \/ split[CampaignKeys[k]] = <<>>
            \/ i >= Len(split[CampaignKeys[k]])
         THEN NextBatch(split, env, size, k + 1, 0)
         ELSE [campaign |-> k, i |-> i]

\* instantly.py line 55: batch = contact_list[i:i + batch_size].
BatchAt(split, size, at) ==
    Slice(split[CampaignKeys[at.campaign]], at.i, at.i + size)

\* instantly.py lines 82-93: one lead goes to /leads, several to /leads/list.
EndpointFor(batch) == IF Len(batch) = 1 THEN "/leads" ELSE "/leads/list"

\* An uploader that counts only status 200.
UploadAccepted_Only200(status) == status = 200

\* instantly.py line 96: `response.status_code in (200, 201)`.
UploadAccepted(status) == status \in {200, 201}

PushInit ==
    /\ instantly_env \in [api_key : BOOLEAN, campaign_primary_id : BOOLEAN,
                          campaign_secondary_id : BOOLEAN]
    /\ \E in \in PushInputs :
           /\ contacts_split = in.split
           /\ batch_size = in.batch_size
    /\ push_pc = "call"
    /\ push_at = [campaign |-> 0, i |-> 0]
    /\ total_uploaded = 0
    /\ push_return = NoReturn
    /\ uploads = <<>>

PushIdle ==
    /\ instantly_env = [api_key |-> TRUE, campaign_primary_id |-> TRUE,
                        campaign_secondary_id |-> TRUE]
    /\ contacts_split = [campaign_a |-> <<>>, campaign_b |-> <<>>]
    /\ batch_size = DefaultBatchSize
    /\ push_pc = "idle"
    /\ push_at = [campaign |-> 0, i |-> 0]
    /\ total_uploaded = 0
    /\ push_return = NoReturn
    /\ uploads = <<>>

\* instantly.py lines 27-34: the credentials are refused, ValueError.
PushRefused ==
    /\ push_pc = "call"
    /\ InstantlyMisconfigured(instantly_env)
    /\ push_pc' = "raised"
    /\ UNCHANGED <<instantly_env, contacts_split, batch_size, push_at,
                   total_uploaded, push_return, uploads>>
    /\ UNCHANGED <<SplitVars, FetchVars, DedupeVars, VerifyVars,
                   CleanupVars, FlowVars>>

\* instantly.py lines 27-54 and 112-121: the credentials pass and the loops
\* run up to the first batch; with nothing to upload the call returns 0.
PushBegin ==
    /\ push_pc = "call"
    /\ ~InstantlyMisconfigured(instantly_env)
    /\ LET at == NextBatch(contacts_split, instantly_env, batch_size, 1, 0)
       IN  /\ push_at' = at
           /\ total_uploaded' = 0
           /\ IF at.campaign > Len(CampaignKeys)
              THEN push_pc' = "returned" /\ push_return' = 0
              ELSE push_pc' = "loop" /\ UNCHANGED push_return
    /\ UNCHANGED <<instantly_env, contacts_split, batch_size, uploads>>
    /\ UNCHANGED <<SplitVars, FetchVars, DedupeVars, VerifyVars,
                   CleanupVars, FlowVars>>

\* instantly.py lines 54-110 and 112-121: the batch at push_at is sent and
\* answered with `status` (UploadException: the request raised, which line
\* 107 catches); the total becomes `total`; the loops run on to the next
\* batch, or the call returns the total.
PushBatchDone(status, total) ==
    LET batch == BatchAt(contacts_split, batch_size, push_at)
        at == NextBatch(contacts_split, instantly_env, batch_size,
                        push_at.campaign, push_at.i + batch_size)
    IN  /\ uploads' = Append(uploads,
               [campaign |-> CampaignKeys[push_at.campaign],
                i |-> push_at.i, batch |-> batch, status |-> status,
                endpoint |-> EndpointFor(batch)])
        /\ total_uploaded' = total
        /\ push_at' = at
        /\ IF at.campaign > Len(CampaignKeys)
           THEN push_pc' = "returned" /\ push_return' = total
           ELSE push_pc' = "loop" /\ UNCHANGED push_return
        /\ UNCHANGED <<instantly_env, contacts_split, batch_size>>
        /\ UNCHANGED <<SplitVars, FetchVars, DedupeVars, VerifyVars,
                       CleanupVars, FlowVars>>

\* instantly.py lines 96-99: the batch is answered with 200 or 201.
PushBatchAccepted ==
    /\ push_pc = "loop"
    /\ \E status \in UploadStatuses :
           /\ UploadAccepted(status)
           /\ PushBatchDone(status,
                  total_uploaded
                      + Len(BatchAt(contacts_split, batch_size, push_at)))

\* instantly.py lines 100-102: the batch is answered with another status.
PushBatchRejected ==
    /\ push_pc = "loop"
    /\ \E status \in UploadStatuses :
           /\ ~UploadAccepted(status)
           /\ PushBatchDone(status, total_uploaded)

\* instantly.py lines 107-108: the request raised; the exception is printed.
PushBatchException ==
    /\ push_pc = "loop"
    /\ PushBatchDone(UploadException, total_uploaded)

(***************************************************************************)
(* reoon.py: verify_emails.                                                *)
(*                                                                         *)
(* The contacts given are 1..n.  A completed task answers with results for *)
(* some of the first emails of its batch, each with the two flags and a    *)
(* status, in the order of the batch; it may also answer for the first     *)
(* email in another spelling, which is no key of contact_map.              *)
(***************************************************************************)
\* The most contacts of the short verification inputs.
MaxVerifySmall == 2

\* The most emails of a batch a task answers for.
MaxResults == 1

\* reoon.py line 80: batch_size.
VerifyBatchSize == 100

\* reoon.py line 113: max_tries.
MaxTries == 18

\* The calls of verify_emails: short lists, a list of one full batch, and a
\* list of one contact more.
VerifyInputs ==
    {Iota(1, n) : n \in 0..MaxVerifySmall}
        \cup {Iota(1, VerifyBatchSize + n) : n \in {0, 1}}

\* What a task says of one email: the flags is_safe_to_send and
\* is_deliverable (absent counts as false) and the status ("none": absent).
Verdicts ==
    [is_safe_to_send : BOOLEAN, is_deliverable : BOOLEAN,
     status : {"none", "risky"}]

\* The first email of the batch in another spelling.
Respelled(batch) == 0 - batch[1]

RECURSIVE ResultsFor(_)
\* The result lists over the emails `candidates`: each email is left out or
\* given a verdict.
ResultsFor(candidates) ==
    IF candidates = <<>> THEN {<<>>}
    ELSE LET rest == ResultsFor(Tail(candidates))
         IN  rest \cup {<<[email |-> candidates[1], verdict |-> v]>> \o r :
                            v \in Verdicts, r \in rest}

\* The `results` of a completed task for `batch`.
TaskResults(batch) ==
    LET own == ResultsFor(SubSeq(batch, 1, Min(MaxResults, Len(batch))))
    IN  own \cup {Append(r, [email |-> Respelled(batch),
                             verdict |-> [is_safe_to_send |-> TRUE,
                                          is_deliverable |-> TRUE,
                                          status |-> "none"]]) : r \in own}

\* reoon.py line 84: batch = email_list[i:i + batch_size].
VerifyBatch(cs, i) == Slice(cs, i, i + VerifyBatchSize)

\* A classification that accepts a deliverable address that is not safe.
IsValid_DeliverableOnly(verdict) == verdict.is_deliverable

\* reoon.py line 132: valid iff both flags are true.
IsValid(verdict) == verdict.is_safe_to_send /\ verdict.is_deliverable

\* reoon.py line 136: reason = verification.get('status', 'unknown').
Reason(verdict) == IF verdict.status = "none" THEN "unknown" ELSE verdict.status

\* reoon.py lines 130-134: the contacts of the results found valid.
ValidOf(results) ==
    LET good == SelectSeq(results, LAMBDA r : IsValid(r.verdict))
    IN  [j \in 1..Len(good) |-> good[j].email]

\* Entries made for every result, the valid ones too.
InvalidOf_EveryResult(results) ==
    [j \in 1..Len(results) |->
        [email |-> results[j].email, reason |-> Reason(results[j].verdict)]]

\* reoon.py lines 135-142: the entries made for the other results.
InvalidOf(results) ==
    LET bad == SelectSeq(results, LAMBDA r : ~IsValid(r.verdict))
    IN  [j \in 1..Len(bad) |->
            [email |-> bad[j].email, reason |-> Reason(bad[j].verdict)]]

\* A poll budget that allows one poll more.
BudgetSpent_OneMore(tries) == tries > MaxTries

\* reoon.py lines 114 and 122-123: the for loop has run max_tries times.
BudgetSpent(tries) == tries >= MaxTries

\* reoon.py line 115: time.sleep(10), in seconds.
PollInterval == 10

\* No poll has been made for the task.
NoPolls == [polls |-> 0, waited |-> 0]

\* A wait that the first poll of a task skips.
WaitBeforePoll_NotTheFirst(tries) == IF tries = 0 THEN 0 ELSE PollInterval

\* reoon.py lines 114-116: every pass of the loop sleeps before its request.
WaitBeforePoll(tries) == PollInterval

\* reoon.py lines 115-116: the sleep and the result request of one more poll.
Polled(p) ==
    [polls |-> p.polls + 1, waited |-> p.waited + WaitBeforePoll(p.polls)]

VerifyInit ==
    /\ reoon_api_key \in BOOLEAN
    /\ verify_contacts \in VerifyInputs
    /\ verify_pc = "call"
    /\ verify_i = 0
    /\ attempt = 0
    /\ polling = NoPolls
    /\ valid_contacts = <<>>
    /\ invalid_contacts = <<>>
    /\ verify_return = NoReturn
    /\ verify_error = "none"
    /\ submitted = <<>>
    /\ verified = <<>>

VerifyIdle ==
    /\ reoon_api_key = TRUE
    /\ verify_contacts = <<>>
    /\ verify_pc = "idle"
    /\ verify_i = 0
    /\ attempt = 0
    /\ polling = NoPolls
    /\ valid_contacts = <<>>
    /\ invalid_contacts = <<>>
    /\ verify_return = NoReturn
    /\ verify_error = "none"
    /\ submitted = <<>>
    /\ verified = <<>>

\* The call raises: nothing is returned.
VerifyRaise(why) ==
    /\ verify_pc' = "raised"
    /\ verify_error' = why

\* reoon.py lines 61-63: REOON_API_KEY is missing, ValueError.
VerifyRefused ==
    /\ verify_pc = "call"
    /\ ~reoon_api_key
    /\ VerifyRaise("missing_key")
    /\ UNCHANGED <<reoon_api_key, verify_contacts, verify_i, attempt,
                   polling, valid_contacts, invalid_contacts, verify_return,
                   submitted, verified>>
    /\ UNCHANGED <<SplitVars, FetchVars, DedupeVars, PushVars,
                   CleanupVars, FlowVars>>

\* reoon.py lines 61-83 and 160-163: the key is there.  With no contacts the
\* batch loop is empty and the success rate of line 163 divides by zero.
VerifyBegin ==
    /\ verify_pc = "call"
    /\ reoon_api_key
    /\ IF verify_contacts = <<>>
       THEN VerifyRaise("zero_division")
       ELSE verify_pc' = "submit" /\ UNCHANGED verify_error
    /\ UNCHANGED <<reoon_api_key, verify_contacts, verify_i, attempt,
                   polling, valid_contacts, invalid_contacts, verify_return,
                   submitted, verified>>
    /\ UNCHANGED <<SplitVars, FetchVars, DedupeVars, PushVars,
                   CleanupVars, FlowVars>>

\* reoon.py lines 84-110: the batch at offset i is submitted and a task id
\* comes back.
VerifySubmit ==
    /\ verify_pc = "submit"
    /\ submitted' = Append(submitted, VerifyBatch(verify_contacts, verify_i))
    /\ attempt' = 0
    /\ polling' = NoPolls
    /\ verify_pc' = "poll"
    /\ UNCHANGED <<reoon_api_key, verify_contacts, verify_i, valid_contacts,
                   invalid_contacts, verify_return, verify_error, verified>>
    /\ UNCHANGED <<SplitVars, FetchVars, DedupeVars, PushVars,
                   CleanupVars, FlowVars>>

\* reoon.py lines 95-101 and 148-158: the submission fails (an HTTP error or
\* a transport error), or its answer holds no task id.
VerifySubmitFails ==
    /\ verify_pc = "submit"
    /\ submitted' = Append(submitted, VerifyBatch(verify_contacts, verify_i))
    /\ \E why \in {"request_failed", "no_task_id"} : VerifyRaise(why)
    /\ polling' = NoPolls
    /\ UNCHANGED <<reoon_api_key, verify_contacts, verify_i, attempt,
                   valid_contacts, invalid_contacts, verify_return, verified>>
    /\ UNCHANGED <<SplitVars, FetchVars, DedupeVars, PushVars,
                   CleanupVars, FlowVars>>

\* reoon.py lines 114-123 and 157-158: a poll is answered with a status other
\* than completed.  The poll that spends the budget ends the for loop, whose
\* else clause raises.
VerifyPollPending ==
    /\ verify_pc = "poll"
    /\ attempt' = attempt + 1
    /\ polling' = Polled(polling)
    /\ IF BudgetSpent(attempt + 1)
       THEN VerifyRaise("timeout")
       ELSE UNCHANGED <<verify_pc, verify_error>>
    /\ UNCHANGED <<reoon_api_key, verify_contacts, verify_i, valid_contacts,
                   invalid_contacts, verify_return, submitted, verified>>
    /\ UNCHANGED <<SplitVars, FetchVars, DedupeVars, PushVars,
                   CleanupVars, FlowVars>>

\* reoon.py lines 116-117 and 148-156: a poll fails with an HTTP error or a
\* transport error.
VerifyPollFails ==
    /\ verify_pc = "poll"
    /\ polling' = Polled(polling)
    /\ VerifyRaise("request_failed")
    /\ UNCHANGED <<reoon_api_key, verify_contacts, verify_i, attempt,
                   valid_contacts, invalid_contacts, verify_return,
                   submitted, verified>>
    /\ UNCHANGED <<SplitVars, FetchVars, DedupeVars, PushVars,
                   CleanupVars, FlowVars>>

\* reoon.py lines 119-146 and 160-165: a poll is answered completed.  The
\* results are classified in their order, until one for an email that is no
\* key of contact_map raises KeyError; after the last one the next batch
\* follows, or the call returns the two lists.
VerifyPollCompleted ==
    /\ verify_pc = "poll"
    /\ polling' = Polled(polling)
    /\ \E results \in TaskResults(VerifyBatch(verify_contacts, verify_i)) :
         LET unknown == {j \in 1..Len(results) :
                             results[j].email \notin Range(verify_contacts)}
             done == IF unknown = {} THEN results
                     ELSE SubSeq(results, 1,
                                 (CHOOSE j \in unknown :
                                      \A k \in unknown : j <= k) - 1)
             valid == valid_contacts \o ValidOf(done)
             invalid == invalid_contacts \o InvalidOf(done)
         IN  /\ valid_contacts' = valid
             /\ invalid_contacts' = invalid
             /\ verified' = verified \o done
             /\ IF unknown # {}
                THEN /\ VerifyRaise("key_error")
                     /\ UNCHANGED <<verify_i, attempt, verify_return>>
                ELSE /\ verify_i' = verify_i + VerifyBatchSize
                     /\ attempt' = 0
                     /\ UNCHANGED verify_error
                     /\ IF verify_i + VerifyBatchSize >= Len(verify_contacts)
                        THEN /\ verify_pc' = "returned"
                             /\ verify_return' =
                                    [valid |-> valid, invalid |-> invalid]
                        ELSE /\ verify_pc' = "submit"
                             /\ UNCHANGED verify_return
    /\ UNCHANGED <<reoon_api_key, verify_contacts, submitted>>
    /\ UNCHANGED <<SplitVars, FetchVars, DedupeVars, PushVars,
                   CleanupVars, FlowVars>>

(***************************************************************************)
(* instantly.py: delete_finished_leads.                                    *)
(*                                                                         *)
(* filter_values holds the one filter FILTER_VAL_COMPLETED, so a campaign  *)
(* is listed once.  A list response carries a page of leads and a next     *)
(* cursor; the lead at position i of what a campaign has listed so far     *)
(* carries the email campaign * 1000 + i.                                  *)
(***************************************************************************)
\* The leads on a short page of a list response.
MaxPageLeads == 2

\* The most list requests for one campaign.
MaxListRequests == 2

\* instantly.py line 162: "limit": 100.
ListLimit == 100

\* instantly.py lines 189-190: the removal batches hold 100 emails.
RemoveBatchSize == 100

\* A request that raised in transport (there is no status).
RequestException == 0

\* The statuses of a list request that raise_for_status raises for.
ListErrors == {401, 500}

\* The statuses a removal is answered with.
RemoveStatuses == {200, 500}

\* The sizes of the pages of leads: an empty page, a short page and a full
\* page.
LeadPageSizes == {0, MaxPageLeads, ListLimit}

\* next_starting_after of a list response: the key is missing, null, the
\* empty string, or a cursor.
Cursors == {"missing", "null", "", "cursor"}

\* instantly.py line 134: campaign_ids, as whether each is set.
CleanupCampaignIds(env) ==
    <<env.campaign_primary_id, env.campaign_secondary_id>>

\* instantly.py lines 150-152: the next campaign with an id after position
\* k, or 3 after the last.
NextCampaign(env, k) ==
    LET ids == CleanupCampaignIds(env)
        later == {j \in (k + 1)..Len(ids) : ids[j]}
    IN  IF later = {} THEN Len(ids) + 1
        ELSE CHOOSE j \in later : \A h \in later : j <= h

\* The emails of a page of n leads that follows `held` listed emails.
LeadEmails(campaign, held, n) ==
    [i \in 1..n |-> campaign * 1000 + Len(held) + i]

\* A listing that goes on as long as pages hold leads.
MoreLeads_UntilEmptyPage(next_starting_after, leads) == leads # <<>>

\* instantly.py lines 178-180: the listing goes on unless the cursor is
\* falsy or the page is empty.
MoreLeads(next_starting_after, leads) ==
    next_starting_after = "cursor" /\ leads # <<>>

\* A removal counted whatever the answer.
RemoveCounted_AnyAnswer(status) == status \in RemoveStatuses

\* instantly.py line 200: `if delete_response.status_code == 200`.
RemoveCounted(status) == status = 200

\* The list requests made for campaign k.
ListRequestsOf(reqs, k) ==
    SelectSeq(reqs, LAMBDA r : r.kind = "list" /\ r.campaign = k)

CleanupInit ==
    /\ cleanup_env \in [api_key : BOOLEAN, campaign_primary_id : BOOLEAN,
                        campaign_secondary_id : BOOLEAN]
    /\ cleanup_pc = "call"
    /\ campaign_at = 0
    /\ starting_after = "none"
    /\ emails_to_delete = <<>>
    /\ delete_at = 0
    /\ deleted_count = 0
    /\ cleanup_return = NoReturn
    /\ cleanup_requests = <<>>

CleanupIdle ==
    /\ cleanup_env = [api_key |-> TRUE, campaign_primary_id |-> TRUE,
                      campaign_secondary_id |-> TRUE]
    /\ cleanup_pc = "idle"
    /\ campaign_at = 0
    /\ starting_after = "none"
    /\ emails_to_delete = <<>>
    /\ delete_at = 0
    /\ deleted_count = 0
    /\ cleanup_return = NoReturn
    /\ cleanup_requests = <<>>

\* instantly.py lines 150-157 and 207: the campaign loop moves to the next
\* campaign with an id, or the call returns `count`.
CleanupEnterCampaign(k, count) ==
    /\ campaign_at' = k
    /\ emails_to_delete' = <<>>
    /\ starting_after' = "none"
    /\ delete_at' = 0
    /\ IF k > Len(CleanupCampaignIds(cleanup_env))
       THEN cleanup_pc' = "returned" /\ cleanup_return' = count
       ELSE cleanup_pc' = "list" /\ UNCHANGED cleanup_return

\* instantly.py lines 133-137: INSTANTLY_API_KEY is missing, ValueError.
CleanupRefused ==
    /\ cleanup_pc = "call"
    /\ ~cleanup_env.api_key
    /\ cleanup_pc' = "raised"
    /\ UNCHANGED <<cleanup_env, campaign_at, starting_after, emails_to_delete,
                   delete_at, deleted_count, cleanup_return, cleanup_requests>>
    /\ UNCHANGED <<SplitVars, FetchVars, DedupeVars, PushVars,
                   VerifyVars, FlowVars>>

\* instantly.py lines 133-157: the key is there; the campaign loop starts.
CleanupBegin ==
    /\ cleanup_pc = "call"
    /\ cleanup_env.api_key
    /\ deleted_count' = 0
    /\ CleanupEnterCampaign(NextCampaign(cleanup_env, 0), 0)
    /\ UNCHANGED <<cleanup_env, cleanup_requests>>
    /\ UNCHANGED <<SplitVars, FetchVars, DedupeVars, PushVars,
                   VerifyVars, FlowVars>>

\* A list request is made for the campaign at work.
CleanupLists ==
    /\ cleanup_pc = "list"
    /\ Len(ListRequestsOf(cleanup_requests, campaign_at)) < MaxListRequests

\* instantly.py lines 158-186: a list request is answered with 200.  The
\* emails of the page are accumulated; then the listing goes on with the
\* cursor, or it ends: with no emails the next campaign follows, otherwise
\* the removals.
CleanupListPage ==
    /\ CleanupLists
    /\ \E n \in LeadPageSizes, next_starting_after \in Cursors :
         LET leads == LeadEmails(campaign_at, emails_to_delete, n)
             held == emails_to_delete \o leads
         IN  /\ cleanup_requests' = Append(cleanup_requests,
                    [kind |-> "list", campaign |-> campaign_at,
                     status |-> 200, sent |-> starting_after,
                     emails |-> leads, cursor |-> next_starting_after,
                     held |-> held])
             /\ IF MoreLeads(next_starting_after, leads)
                THEN /\ emails_to_delete' = held
                     /\ starting_after' = next_starting_after
                     /\ UNCHANGED <<cleanup_pc, campaign_at, delete_at,
                                    cleanup_return>>
                ELSE IF held = <<>>
                THEN CleanupEnterCampaign(
                         NextCampaign(cleanup_env, campaign_at), deleted_count)
                ELSE /\ emails_to_delete' = held
                     /\ starting_after' = next_starting_after
                     /\ cleanup_pc' = "remove"
                     /\ delete_at' = 0
                     /\ UNCHANGED <<campaign_at, cleanup_return>>
    /\ UNCHANGED <<cleanup_env, deleted_count>>
    /\ UNCHANGED <<SplitVars, FetchVars, DedupeVars, PushVars,
                   VerifyVars, FlowVars>>

\* A failed list request that only ends the listing of the campaign: what
\* was accumulated is removed, and the next campaign follows.
CleanupListFails_EndsListing ==
    /\ CleanupLists
    /\ \E status \in ListErrors \cup {RequestException} :
           cleanup_requests' = Append(cleanup_requests,
               [kind |-> "list", campaign |-> campaign_at, status |-> status,
                sent |-> starting_after, emails |-> <<>>, cursor |-> "missing",
                held |-> emails_to_delete])
    /\ IF emails_to_delete = <<>>
       THEN CleanupEnterCampaign(
                NextCampaign(cleanup_env, campaign_at), deleted_count)
       ELSE /\ cleanup_pc' = "remove"
            /\ delete_at' = 0
            /\ UNCHANGED <<campaign_at, starting_after, emails_to_delete,
                           cleanup_return>>
    /\ UNCHANGED <<cleanup_env, deleted_count>>
    /\ UNCHANGED <<SplitVars, FetchVars, DedupeVars, PushVars,
                   VerifyVars, FlowVars>>

\* instantly.py lines 167-172: a list request raises in transport, or is
\* answered with an error status and raise_for_status raises; nothing
\* catches it.
CleanupListFails ==
    /\ CleanupLists
    /\ \E status \in ListErrors \cup {RequestException} :
           cleanup_requests' = Append(cleanup_requests,
               [kind |-> "list", campaign |-> campaign_at, status |-> status,
                sent |-> starting_after, emails |-> <<>>, cursor |-> "missing",
                held |-> emails_to_delete])
    /\ cleanup_pc' = "raised"
    /\ UNCHANGED <<cleanup_env, campaign_at, starting_after, emails_to_delete,
                   delete_at, deleted_count, cleanup_return>>
    /\ UNCHANGED <<SplitVars, FetchVars, DedupeVars, PushVars,
                   VerifyVars, FlowVars>>

\* instantly.py lines 189-207: a removal of the batch at offset i is
\* answered.  A 200 adds the size of the batch to deleted_count; then the
\* next batch follows, or the next campaign.
CleanupRemoveAnswered ==
    /\ cleanup_pc = "remove"
    /\ \E status \in RemoveStatuses :
         LET batch == Slice(emails_to_delete, delete_at,
                            delete_at + RemoveBatchSize)
             count == IF RemoveCounted(status)
                      THEN deleted_count + Len(batch) ELSE deleted_count
         IN  /\ cleanup_requests' = Append(cleanup_requests,
                    [kind |-> "remove", campaign |-> campaign_at,
                     status |-> status, sent |-> "none", emails |-> batch,
                     cursor |-> "missing", held |-> emails_to_delete])
             /\ deleted_count' = count
             /\ IF delete_at + RemoveBatchSize < Len(emails_to_delete)
                THEN /\ delete_at' = delete_at + RemoveBatchSize
                     /\ UNCHANGED <<cleanup_pc, campaign_at, starting_after,
                                    emails_to_delete, cleanup_return>>
                ELSE CleanupEnterCampaign(
                         NextCampaign(cleanup_env, campaign_at), count)
    /\ UNCHANGED cleanup_env
    /\ UNCHANGED <<SplitVars, FetchVars, DedupeVars, PushVars,
                   VerifyVars, FlowVars>>

\* instantly.py lines 195-199: a removal request raises in transport; nothing
\* catches it.
CleanupRemoveException ==
    /\ cleanup_pc = "remove"
    /\ cleanup_requests' = Append(cleanup_requests,
           [kind |-> "remove", campaign |-> campaign_at,
            status |-> RequestException, sent |-> "none",
            emails |-> Slice(emails_to_delete, delete_at,
                             delete_at + RemoveBatchSize),
            cursor |-> "missing", held |-> emails_to_delete])
    /\ cleanup_pc' = "raised"
    /\ UNCHANGED <<cleanup_env, campaign_at, starting_after, emails_to_delete,
                   delete_at, deleted_count, cleanup_return>>
    /\ UNCHANGED <<SplitVars, FetchVars, DedupeVars, PushVars,
                   VerifyVars, FlowVars>>

(***************************************************************************)
(* main.py: run_automation_flow, with logger.py and notifier.py.           *)
(*                                                                         *)
(* The stages are taken by their outcomes: what they return or that they   *)
(* raise, and which service they made a request to.  The contacts fetched  *)
(* are 1..n.                                                               *)
(***************************************************************************)
\* The most contacts the source delivers to a run.
MaxRunContacts == 2

\* main.py line 65: the default of CAMPAIGN_SPLIT_PERCENT.
DefaultSplitPercent == 60

\* The values of CAMPAIGN_SPLIT_PERCENT: unset or in range, and out of range.
RunSplitPercents == {DefaultSplitPercent, 101}

\* The environments of a run: whether the sheet manager can be built, the
\* keys and ids of the services, and the SMTP credentials.
RunEnvs ==
    [google : BOOLEAN, apollo : BOOLEAN, reoon_api_key : BOOLEAN,
     instantly_api_key : BOOLEAN, campaign_ids : BOOLEAN,
     split_percent : RunSplitPercents, smtp : BOOLEAN]

\* The environment push_to_instantly and delete_finished_leads read.
InstantlyEnvOf(env) ==
    [api_key |-> env.instantly_api_key,
     campaign_primary_id |-> env.campaign_ids,
     campaign_secondary_id |-> env.campaign_ids]

\* main.py lines 23-26: the counts at the start of a run.
NoCounts ==
    [fetched |-> 0, new |-> 0, verified |-> 0, uploaded |-> 0, deleted |-> 0]

\* The contacts a run holds before the fetch.
NoContacts ==
    [processed |-> {}, fetched |-> <<>>, new |-> <<>>, valid |-> <<>>,
     invalid |-> <<>>, split |-> [campaign_a |-> <<>>, campaign_b |-> <<>>],
     pushed |-> <<>>]

\* The subsequences of a list.
SubSeqsOf(s) ==
    {SelectSeq(s, LAMBDA c : c \in keep) : keep \in SUBSET Range(s)}

\* A count taken of the wrong list.
VerifiedCount_OfInvalid(valid, invalid) == Len(invalid)

\* main.py line 53: counts['verified'] = len(valid_contacts).
VerifiedCount(valid, invalid) == Len(valid)

\* A handler that goes on with the split after a failed write of the invalid
\* leads.
Handler_SwallowsLogInvalid(manager, at) ==
    IF at = "log_invalid" THEN "split"
    ELSE IF manager THEN "log_failure" ELSE "notify"

\* main.py lines 82-96: where a run goes when the stage at `at` raises: to
\* the Failed summary if sheet_manager is assigned, else to the notification.
Handler(manager, at) == IF manager THEN "log_failure" ELSE "notify"

FlowInit ==
    /\ flow_env \in RunEnvs
    /\ flow_pc = "init"
    /\ sheet_manager = FALSE
    /\ flow_contacts = NoContacts
    /\ flow_counts = NoCounts
    /\ flow_trace = <<>>
    /\ raised_at = 0
    /\ flow_faults = {}
    /\ requested = {}
    /\ summaries = <<>>
    /\ notified = 0
    /\ flow_outcome = "running"

FlowIdle ==
    /\ flow_env = [google |-> TRUE, apollo |-> TRUE, reoon_api_key |-> TRUE,
                   instantly_api_key |-> TRUE, campaign_ids |-> TRUE,
                   split_percent |-> DefaultSplitPercent, smtp |-> TRUE]
    /\ flow_pc = "idle"
    /\ sheet_manager = FALSE
    /\ flow_contacts = NoContacts
    /\ flow_counts = NoCounts
    /\ flow_trace = <<>>
    /\ raised_at = 0
    /\ flow_faults = {}
    /\ requested = {}
    /\ summaries = <<>>
    /\ notified = 0
    /\ flow_outcome = "running"

\* The stage `stage` is invoked and returns; the run goes on at `next`.
FlowReturns(stage, next) ==
    /\ flow_trace' = Append(flow_trace, stage)
    /\ flow_pc' = next
    /\ UNCHANGED raised_at

\* The stage `stage` is invoked and raises; the handler takes over.
FlowRaises(stage) ==
    /\ flow_trace' = Append(flow_trace, stage)
    /\ flow_pc' = Handler(sheet_manager, flow_pc)
    /\ raised_at' = Len(flow_trace) + 1

\* A summary write whose row is in the sheet although append_row raised.
LogRunSummary_RowKeptOnFailure(status, stored) ==
    /\ summaries' = Append(summaries,
                           [status |-> status, counts |-> flow_counts])
    /\ requested' = requested \cup {"log_store"}
    /\ flow_faults' = IF stored THEN flow_faults
                      ELSE flow_faults \cup {"log_store"}

\* logger.py lines 55-68: log_run_summary appends a row, or the store fails
\* and append_row raises.
LogRunSummary(status, stored) ==
    IF stored
    THEN /\ summaries' = Append(summaries,
                                [status |-> status, counts |-> flow_counts])
         /\ requested' = requested \cup {"log_store"}
         /\ UNCHANGED flow_faults
    ELSE /\ flow_faults' = flow_faults \cup {"log_store"}
         /\ requested' = requested \cup {"log_store"}
         /\ UNCHANGED summaries

\* main.py line 30 and logger.py lines 17-42: the sheet manager is built, or
\* its constructor raises and sheet_manager stays None.
RunSheetManager ==
    /\ flow_pc = "init"
    /\ IF flow_env.google
       THEN /\ sheet_manager' = TRUE
            /\ requested' = requested \cup {"log_store"}
            /\ FlowReturns("INIT", "get_processed")
            /\ UNCHANGED flow_faults
       ELSE /\ flow_faults' = flow_faults \cup {"log_store"}
            /\ FlowRaises("INIT")
            /\ UNCHANGED <<sheet_manager, requested>>
    /\ UNCHANGED <<flow_env, flow_contacts, flow_counts, summaries, notified,
                   flow_outcome>>
    /\ UNCHANGED <<SplitVars, FetchVars, DedupeVars, PushVars, VerifyVars,
                   CleanupVars>>

\* main.py line 33: the processed emails are read.
RunProcessedEmails ==
    /\ flow_pc = "get_processed"
    /\ \E sheet \in SubSeqsOf(Iota(1, MaxRunContacts)) :
           flow_contacts' =
               [flow_contacts EXCEPT !.processed = GetProcessedEmails(sheet)]
    /\ FlowReturns("GET_PROCESSED", "fetch")
    /\ UNCHANGED <<flow_env, sheet_manager, flow_counts, flow_faults,
                   requested, summaries, notified, flow_outcome>>
    /\ UNCHANGED <<SplitVars, FetchVars, DedupeVars, PushVars, VerifyVars,
                   CleanupVars>>

\* main.py lines 36-37: the fetch raises on its credentials before any
\* request; otherwise it requests pages and returns contacts, or raises.
RunFetchStage ==
    /\ flow_pc = "fetch"
    /\ IF ~flow_env.apollo
       THEN /\ FlowRaises("FETCH")
            /\ UNCHANGED <<flow_contacts, flow_counts, flow_faults, requested>>
       ELSE /\ requested' = requested \cup {"source"}
            /\ \/ /\ flow_faults' = flow_faults \cup {"source"}
                  /\ FlowRaises("FETCH")
                  /\ UNCHANGED <<flow_contacts, flow_counts>>
               \/ \E n \in 0..MaxRunContacts :
                     /\ flow_contacts' =
                            [flow_contacts EXCEPT !.fetched = Iota(1, n)]
                     /\ flow_counts' = [flow_counts EXCEPT !.fetched = n]
                     /\ FlowReturns("FETCH", "dedupe")
                     /\ UNCHANGED flow_faults
    /\ UNCHANGED <<flow_env, sheet_manager, summaries, notified, flow_outcome>>
    /\ UNCHANGED <<SplitVars, FetchVars, DedupeVars, PushVars, VerifyVars,
                   CleanupVars>>

\* main.py lines 40-46: the new contacts are selected.
RunDedupeStage ==
    /\ flow_pc = "dedupe"
    /\ LET new == NewContacts(flow_contacts.fetched, flow_contacts.processed)
       IN  /\ flow_contacts' = [flow_contacts EXCEPT !.new = new]
           /\ flow_counts' = [flow_counts EXCEPT !.new = Len(new)]
           /\ FlowReturns("DEDUPE",
                          IF new = <<>> THEN "end_no_new" ELSE "verify")
    /\ UNCHANGED <<flow_env, sheet_manager, flow_faults, requested, summaries,
                   notified, flow_outcome>>
    /\ UNCHANGED <<SplitVars, FetchVars, DedupeVars, PushVars, VerifyVars,
                   CleanupVars>>

\* A run ends with the summary `status`: the row is appended and the run
\* returns, or the store fails and the write raises.
RunEndsWith(stage, status) ==
    /\ \E stored \in BOOLEAN :
         /\ LogRunSummary(status, stored)
         /\ IF stored
            THEN FlowReturns(stage, "end") /\ flow_outcome' = "returned"
            ELSE FlowRaises(stage) /\ UNCHANGED flow_outcome
    /\ UNCHANGED <<flow_env, sheet_manager, flow_contacts, flow_counts,
                   notified>>
    /\ UNCHANGED <<SplitVars, FetchVars, DedupeVars, PushVars, VerifyVars,
                   CleanupVars>>

\* main.py lines 46-49: no new contacts, the run ends.
RunEndNoNew ==
    /\ flow_pc = "end_no_new"
    /\ RunEndsWith("END_NO_NEW", "Completed (No New Leads)")

\* main.py lines 52-59: the verification raises on its key before any
\* request; otherwise it makes requests and returns the two lists, or raises.
RunVerifyStage ==
    /\ flow_pc = "verify"
    /\ IF ~flow_env.reoon_api_key
       THEN /\ FlowRaises("VERIFY")
            /\ UNCHANGED <<flow_contacts, flow_counts, flow_faults, requested>>
       ELSE /\ requested' = requested \cup {"verification"}
            /\ \/ /\ flow_faults' = flow_faults \cup {"verification"}
                  /\ FlowRaises("VERIFY")
                  /\ UNCHANGED <<flow_contacts, flow_counts>>
               \/ \E valid \in SubSeqsOf(flow_contacts.new) :
                  \E invalid \in SubSeqsOf(SelectSeq(flow_contacts.new,
                                     LAMBDA c : c \notin Range(valid))) :
                     /\ flow_contacts' = [flow_contacts EXCEPT
                                              !.valid = valid,
                                              !.invalid = invalid]
                     /\ flow_counts' =
                            [flow_counts EXCEPT
                                 !.verified = VerifiedCount(valid, invalid)]
                     /\ FlowReturns("VERIFY",
                            IF invalid # <<>> THEN "log_invalid"
                            ELSE IF valid = <<>> THEN "end_no_valid"
                            ELSE "split")
                     /\ UNCHANGED flow_faults
    /\ UNCHANGED <<flow_env, sheet_manager, summaries, notified, flow_outcome>>
    /\ UNCHANGED <<SplitVars, FetchVars, DedupeVars, PushVars, VerifyVars,
                   CleanupVars>>

\* A write of leads to the sheet `attribute` of the manager (logger.py lines
\* 70-97): reading an attribute __init__ did not assign raises
\* AttributeError; otherwise the rows are appended, or the store fails.
RunLogLeads(stage, attribute, next) ==
    /\ IF attribute \in SheetManagerAttributes
       THEN /\ requested' = requested \cup {"log_store"}
            /\ \E stored \in BOOLEAN :
                 IF stored
                 THEN FlowReturns(stage, next) /\ UNCHANGED flow_faults
                 ELSE /\ FlowRaises(stage)
                      /\ flow_faults' = flow_faults \cup {"log_store"}
       ELSE /\ FlowRaises(stage)
            /\ UNCHANGED <<flow_faults, requested>>
    /\ UNCHANGED <<flow_env, sheet_manager, flow_contacts, flow_counts,
                   summaries, notified, flow_outcome>>
    /\ UNCHANGED <<SplitVars, FetchVars, DedupeVars, PushVars, VerifyVars,
                   CleanupVars>>

\* main.py lines 56-59: the invalid contacts, of which there are some, are
\* logged.
RunLogInvalid ==
    /\ flow_pc = "log_invalid"
    /\ RunLogLeads("LOG_INVALID", "invalid_sheet",
                   IF flow_contacts.valid = <<>> THEN "end_no_valid"
                   ELSE "split")

\* main.py lines 59-62: no valid contacts, the run ends.
RunEndNoValid ==
    /\ flow_pc = "end_no_valid"
    /\ RunEndsWith("END_NO_VALID", "Completed (No Valid Leads)")

\* main.py lines 65-66 and utils.py lines 15-25: the valid contacts are
\* shuffled in place and split, or the percentage is refused.
RunSplitStage ==
    /\ flow_pc = "split"
    /\ IF PercentInRange(flow_env.split_percent)
       THEN \E shuffled \in Shuffles(flow_contacts.valid) :
              /\ flow_contacts' = [flow_contacts EXCEPT
                     !.valid = shuffled,
                     !.split = SplitGroups(shuffled,
                                   SplitIndex(Len(shuffled),
                                              flow_env.split_percent))]
              /\ FlowReturns("SPLIT", "push")
       ELSE /\ FlowRaises("SPLIT")
            /\ UNCHANGED flow_contacts
    /\ UNCHANGED <<flow_env, sheet_manager, flow_counts, flow_faults,
                   requested, summaries, notified, flow_outcome>>
    /\ UNCHANGED <<SplitVars, FetchVars, DedupeVars, PushVars, VerifyVars,
                   CleanupVars>>

\* main.py lines 68-69 and instantly.py lines 27-121: the upload raises on
\* its key and ids before any request; otherwise each group with contacts
\* is sent as one batch (batch_size has its default), and the upload returns
\* the number of leads of the batches answered with 200 or 201.
RunUploadStage ==
    /\ flow_pc = "push"
    /\ IF InstantlyMisconfigured(InstantlyEnvOf(flow_env))
       THEN /\ FlowRaises("UPLOAD")
            /\ UNCHANGED <<flow_contacts, flow_counts, requested>>
       ELSE /\ requested' = requested \cup {"destination"}
            /\ \E accepted \in SUBSET {"campaign_a", "campaign_b"} :
                 LET pushed ==
                         (IF "campaign_a" \in accepted
                          THEN flow_contacts.split.campaign_a ELSE <<>>)
                         \o (IF "campaign_b" \in accepted
                             THEN flow_contacts.split.campaign_b ELSE <<>>)
                 IN  /\ flow_contacts' =
                            [flow_contacts EXCEPT !.pushed = pushed]
                     /\ flow_counts' =
                            [flow_counts EXCEPT !.uploaded = Len(pushed)]
            /\ FlowReturns("UPLOAD", "log_processed")
    /\ UNCHANGED <<flow_env, sheet_manager, flow_faults,
                   summaries, notified, flow_outcome>>
    /\ UNCHANGED <<SplitVars, FetchVars, DedupeVars, PushVars, VerifyVars,
                   CleanupVars>>

\* main.py line 72: the valid contacts, of which there are some, are logged
\* as processed.  (Lines 75-80, the cleanup and the Success summary, follow a
\* write that returns.)
RunLogProcessed ==
    /\ flow_pc = "log_processed"
    /\ RunLogLeads("LOG_PROCESSED", "processed_sheet", "cleanup")

\* main.py lines 91-93: the Failed summary is written; if the write raises,
\* the exception leaves the run.
RunLogFailure ==
    /\ flow_pc = "log_failure"
    /\ flow_trace' = Append(flow_trace, "LOG_FAILURE")
    /\ \E stored \in BOOLEAN :
         /\ LogRunSummary("Failed", stored)
         /\ IF stored
            THEN flow_pc' = "notify" /\ UNCHANGED flow_outcome
            ELSE flow_pc' = "end" /\ flow_outcome' = "raised"
    /\ UNCHANGED <<flow_env, sheet_manager, flow_contacts, flow_counts,
                   raised_at, notified>>
    /\ UNCHANGED <<SplitVars, FetchVars, DedupeVars, PushVars, VerifyVars,
                   CleanupVars>>

\* main.py line 96 and notifier.py lines 6-46: send_error_email is called;
\* with SMTP credentials it tries to send, and never raises.
RunNotify ==
    /\ flow_pc = "notify"
    /\ flow_trace' = Append(flow_trace, "NOTIFY")
    /\ notified' = notified + 1
    /\ requested' = IF flow_env.smtp THEN requested \cup {"smtp"}
                    ELSE requested
    /\ flow_pc' = "end"
    /\ flow_outcome' = "returned"
    /\ UNCHANGED <<flow_env, sheet_manager, flow_contacts, flow_counts,
                   raised_at, flow_faults, summaries>>
    /\ UNCHANGED <<SplitVars, FetchVars, DedupeVars, PushVars, VerifyVars,
                   CleanupVars>>

(***************************************************************************)
(* Specifications.                                                         *)
(***************************************************************************)
SplitNext == SplitContactsRaise \/ SplitContactsReturn

InitSplit ==
    SplitInit /\ FetchIdle /\ DedupeIdle /\ PushIdle
        /\ VerifyIdle /\ CleanupIdle /\ FlowIdle

SpecSplit == InitSplit /\ [][SplitNext]_vars

FetchNext ==
    \/ FetchRefused
    \/ FetchBegin
    \/ FetchCapReached
    \/ FetchPage
    \/ FetchRateLimited
    \/ FetchHttpError
    \/ FetchTransportError

InitFetch ==
    FetchInit /\ SplitIdle /\ DedupeIdle /\ PushIdle
        /\ VerifyIdle /\ CleanupIdle /\ FlowIdle

SpecFetch == InitFetch /\ [][FetchNext]_vars

DedupeNext == RunGetProcessedEmails \/ RunFetch \/ RunDedupe

InitDedupe ==
    DedupeInit /\ SplitIdle /\ FetchIdle /\ PushIdle
        /\ VerifyIdle /\ CleanupIdle /\ FlowIdle

SpecDedupe == InitDedupe /\ [][DedupeNext]_vars

PushNext ==
    \/ PushRefused
    \/ PushBegin
    \/ PushBatchAccepted
    \/ PushBatchRejected
    \/ PushBatchException

InitPush ==
    PushInit /\ SplitIdle /\ FetchIdle /\ DedupeIdle
        /\ VerifyIdle /\ CleanupIdle /\ FlowIdle

SpecPush == InitPush /\ [][PushNext]_vars

VerifyNext ==
    \/ VerifyRefused
    \/ VerifyBegin
    \/ VerifySubmit
    \/ VerifySubmitFails
    \/ VerifyPollPending
    \/ VerifyPollFails
    \/ VerifyPollCompleted

InitVerify ==
    VerifyInit /\ SplitIdle /\ FetchIdle /\ DedupeIdle
        /\ PushIdle /\ CleanupIdle /\ FlowIdle

SpecVerify == InitVerify /\ [][VerifyNext]_vars

CleanupNext ==
    \/ CleanupRefused
    \/ CleanupBegin
    \/ CleanupListFails
    \/ CleanupRemoveException
    \/ CleanupListPage
    \/ CleanupRemoveAnswered

InitCleanup ==
    CleanupInit /\ SplitIdle /\ FetchIdle /\ DedupeIdle
        /\ PushIdle /\ VerifyIdle /\ FlowIdle

SpecCleanup == InitCleanup /\ [][CleanupNext]_vars

FlowNext ==
    \/ RunSheetManager
    \/ RunProcessedEmails
    \/ RunFetchStage
    \/ RunDedupeStage
    \/ RunEndNoNew
    \/ RunVerifyStage
    \/ RunLogInvalid
    \/ RunEndNoValid
    \/ RunSplitStage
    \/ RunUploadStage
    \/ RunLogProcessed
    \/ RunLogFailure
    \/ RunNotify

InitFlow ==
    FlowInit /\ SplitIdle /\ FetchIdle /\ DedupeIdle
        /\ PushIdle /\ VerifyIdle /\ CleanupIdle

SpecFlow == InitFlow /\ [][FlowNext]_vars

(***************************************************************************)
(* Claims about split_contacts, checked under SpecSplit.                   *)
(***************************************************************************)
\* C1: for every p in 0..100 and every list of length n, split_contacts
\* returns floor(n*p/100) contacts in campaign_a and the other
\* n - floor(n*p/100) in campaign_b.  (The code computes the index in
\* floating point, and int(50 * (58 / 100)) is 28, not 29.)
C1_SplitSizesAreFloor ==
    split_pc = "returned" =>
        LET n == Len(split_input)
            k == (n * primary_percent) \div 100
        IN  /\ Len(split_return.campaign_a) = k
            /\ Len(split_return.campaign_b) = n - k

\* C2: the two groups partition the input: every contact occurs in
\* campaign_a and campaign_b together exactly as often as in the input (once,
\* in exactly one group, when the input holds it once), and nothing else
\* occurs in them, whatever arrangement the shuffle picks.
C2_SplitPartitionsInput ==
    split_pc = "returned" =>
        LET a == split_return.campaign_a
            b == split_return.campaign_b
        IN  /\ Len(a) + Len(b) = Len(split_input)
            /\ Range(a) \cup Range(b) = Range(split_input)
            /\ \A v \in Range(split_input) :
                   Count(a, v) + Count(b, v) = Count(split_input, v)

\* C2 witness: three different contacts, shuffled into another order, with
\* both groups non-empty.
C2_Witness ==
    /\ split_pc = "returned"
    /\ Cardinality(Range(split_input)) = 3
    /\ contacts # split_input
    /\ split_return.campaign_a # <<>>
    /\ split_return.campaign_b # <<>>

\* C3: with p < 0 or p > 100 the call fails before any randomization: it
\* raises, the caller's list keeps its order and no groups are returned.
C3_OutOfRangeRaisesFirst ==
    (split_pc # "call" /\ (primary_percent < 0 \/ primary_percent > 100)) =>
        /\ split_pc = "raised"
        /\ ~split_shuffled
        /\ contacts = split_input
        /\ split_return = NoReturn

\* C3 witness: a call with p = -1 on a list of two or more contacts raised.
C3_Witness ==
    /\ split_pc = "raised"
    /\ primary_percent < 0
    /\ Len(split_input) >= 2

(***************************************************************************)
(* Claims about fetch_all_contacts_from_list, checked under SpecFetch.     *)
(***************************************************************************)
RECURSIVE ContactsOfPages(_)
\* The contacts of the pages a list of answered requests delivered, in order.
ContactsOfPages(reqs) ==
    IF reqs = <<>> THEN <<>>
    ELSE WithEmail(reqs[1].records) \o ContactsOfPages(Tail(reqs))

\* C4: with no page cap and no HTTP errors the fetcher requests pages
\* 1, 2, 3, ... in order, makes no request after a page of zero records,
\* returns at that page, and returns the contacts of all earlier pages.
C4_StopsAtFirstEmptyPage ==
    (/\ apollo_env.test_mode_pages = <<>>
     /\ \A i \in 1..Len(requests) : requests[i].status = 200) =>
        /\ \A i \in 1..Len(requests) : requests[i].page = i
        /\ \A i \in 1..(Len(requests) - 1) : requests[i].records # <<>>
        /\ (requests # <<>> /\ requests[Len(requests)].records = <<>>)
               => fetch_pc = "returned"
        /\ fetch_pc = "returned" =>
               /\ requests # <<>>
               /\ requests[Len(requests)].records = <<>>
               /\ fetch_return =
                      ContactsOfPages(SubSeq(requests, 1, Len(requests) - 1))

\* C4 witness: two pages with a contact each, then an empty page: two
\* contacts are returned after exactly three requests.
C4_Witness ==
    /\ fetch_pc = "returned"
    /\ apollo_env.test_mode_pages = <<>>
    /\ Len(requests) = 3
    /\ \A i \in 1..Len(requests) : requests[i].status = 200
    /\ Len(fetch_return) = 2

\* C5: after HTTP 429 on page k the fetcher waits the cooldown and its next
\* request is for page k again, never k + 1; the 429 leaves the accumulated
\* contacts as they were; once the retry is answered with a page, the request
\* after it is for page k + 1; and no contact is accumulated twice.
C5_RateLimitRetriesSamePage ==
    /\ \A i \in 1..Len(requests) :
           requests[i].status = 429 =>
               /\ requests[i].waited = RateLimitWait
               /\ requests[i].held =
                      (IF i = 1 THEN <<>> ELSE requests[i - 1].held)
               /\ i < Len(requests) =>
                      requests[i + 1].page = requests[i].page
               /\ (i + 2 <= Len(requests) /\ requests[i + 1].status = 200) =>
                      requests[i + 2].page = requests[i].page + 1
               /\ i = Len(requests) =>
                      /\ fetch_pc = "loop"
                      /\ page = requests[i].page
                      /\ all_contacts = requests[i].held
    /\ \A i, j \in 1..Len(all_contacts) :
           all_contacts[i] = all_contacts[j] => i = j

\* C5 witness: page 1 gave a contact, page 2 was answered with 429, and the
\* retry of page 2 gave another contact.
C5_Witness ==
    /\ Len(requests) >= 3
    /\ requests[2].status = 429
    /\ requests[2].page = 2
    /\ requests[3].status = 200
    /\ Len(requests[2].held) = 1
    /\ Len(all_contacts) = 2

\* C24: with a page cap c the requests are for pages 1..c only; the request
\* answered with page c is the last one, also when that page had records;
\* a return happens after an empty page or with page c behind, and returns
\* the contacts of the pages requested.
C24_CapBoundsPages ==
    apollo_env.test_mode_pages # <<>> =>
        LET c == apollo_env.test_mode_pages[1]
            n == Len(requests)
        IN  /\ \A i \in 1..n : requests[i].page \in 1..c
            /\ \A i \in 1..n :
                   (requests[i].page = c /\ requests[i].status = 200) => i = n
            /\ fetch_pc = "returned" =>
                   /\ fetch_return = ContactsOfPages(requests)
                   /\ \/ /\ n > 0
                         /\ requests[n].status = 200
                         /\ requests[n].records = <<>>
                      \/ /\ page = c + 1
                         /\ c > 0 =>
                                /\ n > 0
                                /\ requests[n].page = c
                                /\ requests[n].status = 200
                                /\ requests[n].records # <<>>

\* C24 witness: with a cap of two, pages 1 and 2 gave a contact each and the
\* fetch returned both without a third request.
C24_Witness ==
    /\ apollo_env.test_mode_pages = <<2>>
    /\ fetch_pc = "returned"
    /\ Len(requests) = 2
    /\ requests[2].page = 2
    /\ requests[2].records # <<>>
    /\ Len(fetch_return) = 2

\* C18: no accumulated or returned contact has an empty or missing email,
\* and every record with an email on a fetched non-empty page is retained.
\* (A record with an email whose organization is null raises at line 77 and
\* is not retained, nor are the records after it.)
C18_RetainsExactlyRecordsWithEmail ==
    /\ \A i \in 1..Len(all_contacts) : all_contacts[i] # 0
    /\ fetch_pc = "returned" =>
           \A i \in 1..Len(fetch_return) : fetch_return[i] # 0
    /\ \A i \in 1..Len(requests) :
           requests[i].status = 200 =>
               \A j \in 1..Len(requests[i].records) :
                   requests[i].records[j].email # 0 =>
                       requests[i].records[j].email \in Range(all_contacts)

\* C19: an HTTP error other than 429, or a transport exception, on a page
\* request makes the fetch raise: that request is the last one, and no
\* contacts are returned, those of earlier pages included.
C19_OtherErrorsAreFatal ==
    \A i \in 1..Len(requests) :
        requests[i].status \in OtherHttpErrors \cup {TransportError} =>
            /\ i = Len(requests)
            /\ fetch_pc = "raised"
            /\ fetch_return = NoReturn

\* C19 witness: the first page gave a contact and the second request failed
\* in transport.
C19_Witness ==
    /\ Len(requests) = 2
    /\ requests[1].status = 200
    /\ requests[2].status = TransportError
    /\ all_contacts # <<>>
    /\ fetch_pc = "raised"

(***************************************************************************)
(* Claims about deduplication, checked under SpecDedupe.                   *)
(***************************************************************************)
\* C6: deduplication classifies a fetched contact as new exactly when its
\* email is not among the processed emails the log store holds.  (The code
\* reads the store through an attribute __init__ never assigns, so it
\* deduplicates against the empty set.)
C6_NewIffNotProcessed ==
    run_pc = "deduped" =>
        new_contacts =
            SelectSeq(all_apollo_contacts,
                      LAMBDA c : c \notin Range(processed_sheet))

(***************************************************************************)
(* Claims about push_to_instantly, checked under SpecPush.                 *)
(***************************************************************************)
\* The batches of one group: consecutive runs of `size` contacts, the last
\* one shorter when the group does not divide evenly.
BatchesOfGroup(key, group, size) ==
    [j \in 1..((Len(group) + size - 1) \div size) |->
        [campaign |-> key,
         batch |-> SubSeq(group, (j - 1) * size + 1,
                          Min(j * size, Len(group)))]]

\* The batches of both groups, campaign_a first.
BatchesOfSplit(split, size) ==
    BatchesOfGroup("campaign_a", split.campaign_a, size)
        \o BatchesOfGroup("campaign_b", split.campaign_b, size)

RECURSIVE SizeOfAnswered(_, _)
\* The contacts in the uploads that were answered with a status in `ok`.
SizeOfAnswered(ups, ok) ==
    IF ups = <<>> THEN 0
    ELSE (IF ups[1].status \in ok THEN Len(ups[1].batch) ELSE 0)
             + SizeOfAnswered(Tail(ups), ok)

\* C7: each group is sent as consecutive batches of at most batch_size
\* contacts; the total, and the value returned, is the sum of the sizes of
\* exactly the batches answered with 200 or 201; a batch that fails (another
\* status, or an exception) adds nothing, raises nothing and keeps no later
\* batch or campaign from being attempted.
C7_UploadAccounting ==
    LET expected == BatchesOfSplit(contacts_split, batch_size)
    IN  /\ Len(uploads) <= Len(expected)
        /\ \A j \in 1..Len(uploads) :
               /\ uploads[j].campaign = expected[j].campaign
               /\ uploads[j].batch = expected[j].batch
               /\ Len(uploads[j].batch) \in 1..batch_size
        /\ total_uploaded = SizeOfAnswered(uploads, {200, 201})
        /\ push_pc = "loop" => Len(uploads) < Len(expected)
        /\ push_pc = "returned" =>
               /\ Len(uploads) = Len(expected)
               /\ push_return = SizeOfAnswered(uploads, {200, 201})
        /\ push_pc = "raised" => uploads = <<>>

\* C7 witness: 250 contacts at batch size 100 went out as batches of 100, 100
\* and 50; the second failed, and 150 is returned.
C7_Witness ==
    /\ push_pc = "returned"
    /\ Len(contacts_split.campaign_a) = 250
    /\ contacts_split.campaign_b = <<>>
    /\ batch_size = 100
    /\ Len(uploads) = 3
    /\ Len(uploads[1].batch) = 100 /\ uploads[1].status = 200
    /\ Len(uploads[2].batch) = 100 /\ uploads[2].status = 500
    /\ Len(uploads[3].batch) = 50 /\ uploads[3].status = 201
    /\ push_return = 150

\* C8: a group whose campaign id is not configured is skipped and is no
\* error: the call raises nothing, sends no upload for that group, and still
\* sends every batch of the other group.  (The code raises ValueError at line
\* 34 when either id is missing.)
C8_UnconfiguredCampaignSkipped ==
    (/\ push_pc \notin {"idle", "call"}
     /\ instantly_env.api_key
     /\ ~instantly_env.campaign_primary_id
     /\ instantly_env.campaign_secondary_id) =>
        /\ push_pc # "raised"
        /\ \A j \in 1..Len(uploads) : uploads[j].campaign # "campaign_a"
        /\ push_pc = "returned" =>
               Len(uploads) =
                   Len(BatchesOfGroup("campaign_b",
                                      contacts_split.campaign_b, batch_size))

(***************************************************************************)
(* Claims about reoon.verify_emails.                                       *)
(***************************************************************************)
\* C9: when a batch's task is not reported completed within the 18 polls, the
\* call raises: no later batch is submitted and no lists are returned, so
\* the results of the batches completed before are lost with it.
C9_PollTimeoutIsFatal ==
    attempt >= MaxTries =>
        /\ verify_pc = "raised"
        /\ verify_return = NoReturn
        /\ Len(submitted) = (verify_i \div VerifyBatchSize) + 1
        /\ submitted[Len(submitted)] = VerifyBatch(verify_contacts, verify_i)

\* The second batch has run out of polls after the first one was completed
\* with a valid email.
C9_Witness ==
    /\ attempt = MaxTries
    /\ verify_error = "timeout"
    /\ verify_i = VerifyBatchSize
    /\ Len(verify_contacts) > VerifyBatchSize
    /\ Len(submitted) = 2
    /\ valid_contacts # <<>>
    /\ verify_return = NoReturn

\* C10: a result makes its contact valid exactly when is_safe_to_send and
\* is_deliverable are both true; every other result makes an invalid entry
\* whose reason is the reported status, or unknown without one.
C10_ValidIffBothFlags ==
    \A j \in 1..Len(verified) :
        LET r == verified[j]
            both == r.verdict.is_safe_to_send /\ r.verdict.is_deliverable
            entries == {k \in 1..Len(invalid_contacts) :
                            invalid_contacts[k].email = r.email}
            inReturn == verify_return # NoReturn
        IN  /\ both <=> r.email \in Range(valid_contacts)
            /\ both <=> entries = {}
            /\ \A k \in entries :
                   invalid_contacts[k].reason =
                       (IF r.verdict.status = "none" THEN "unknown"
                        ELSE r.verdict.status)
            /\ inReturn =>
                   /\ verify_return.valid = valid_contacts
                   /\ verify_return.invalid = invalid_contacts

\* The call has returned after a result with both flags and a result with
\* one flag only and no status.
C10_Witness ==
    /\ verify_pc = "returned"
    /\ \E j \in 1..Len(verified) :
           /\ verified[j].verdict.is_safe_to_send
           /\ verified[j].verdict.is_deliverable
    /\ \E j \in 1..Len(verified) :
           /\ verified[j].verdict.is_safe_to_send
           /\ ~verified[j].verdict.is_deliverable
           /\ verified[j].verdict.status = "none"
    /\ Len(verify_return.valid) = 1
    /\ Len(verify_return.invalid) = 1

\* The emails of the entries of an invalid list.
InvalidEmails(entries) == {entries[k].email : k \in 1..Len(entries)}

\* The emails of the batches submitted.
SubmittedEmails == UNION {Range(submitted[b]) : b \in 1..Len(submitted)}

\* The emails of the result sets of the completed tasks.
ResultEmails == {verified[j].email : j \in 1..Len(verified)}

\* C11: when verify_emails returns, every email of a completed task's result
\* set is in exactly one of the valid and the invalid list, and every
\* submitted email absent from the result sets is in neither.
C11_ResultsPartitioned ==
    verify_pc = "returned" =>
        /\ \A email \in ResultEmails :
               (email \in Range(verify_return.valid))
                   # (email \in InvalidEmails(verify_return.invalid))
        /\ \A email \in SubmittedEmails \ ResultEmails :
               /\ email \notin Range(verify_return.valid)
               /\ email \notin InvalidEmails(verify_return.invalid)

\* Two batches were verified: the tasks answered for a valid and for an
\* invalid email and left other submitted emails out.
C11_Witness ==
    /\ verify_pc = "returned"
    /\ Len(submitted) = 2
    /\ verify_return.valid # <<>>
    /\ verify_return.invalid # <<>>
    /\ SubmittedEmails \ ResultEmails # {}

\* C23: a task is polled at most 18 times, with the fixed wait before every
\* poll; the polling stops at the first poll answered completed, also when
\* that is the 18th; only 18 polls not answered completed time out; and a
\* batch holds at most 100 emails.
C23_PollsAreBounded ==
    /\ polling.polls <= MaxTries
    /\ polling.waited = PollInterval * polling.polls
    /\ verify_pc = "poll" =>
           /\ polling.polls < MaxTries
           /\ polling.polls = attempt
    /\ verify_error = "timeout" =>
           /\ polling.polls = MaxTries
           /\ attempt = MaxTries
    /\ (polling.polls = MaxTries /\ verify_error = "none") =>
           verify_pc \in {"submit", "returned"}
    /\ \A b \in 1..Len(submitted) : Len(submitted[b]) <= VerifyBatchSize

\* C23 witness: the task of the only batch was answered completed on its
\* 18th poll and the call returned a valid contact.
C23_Witness ==
    /\ verify_pc = "returned"
    /\ polling.polls = MaxTries
    /\ Len(submitted) = 1
    /\ verify_return.valid # <<>>

(***************************************************************************)
(* Claims about delete_finished_leads, checked under SpecCleanup.          *)
(***************************************************************************)
\* The removal requests made for campaign k.
RemovalsOf(reqs, k) ==
    SelectSeq(reqs, LAMBDA r : r.kind = "remove" /\ r.campaign = k)

\* The emails campaign k has listed: what its last list request held.
ListedOf(reqs, k) ==
    LET lists == ListRequestsOf(reqs, k)
    IN  IF lists = <<>> THEN <<>> ELSE lists[Len(lists)].held

\* A list response that ends the listing of the claim: the cursor is
\* missing, null or empty, or the page is empty.
LastListResponse(r) ==
    /\ r.kind = "list"
    /\ r.status = 200
    /\ (r.cursor \in {"missing", "null", ""} \/ r.emails = <<>>)

\* C12: the listing of a campaign stops after the first response whose next
\* cursor is missing, null or empty, or whose page is empty: no list request
\* for the campaign follows, and the emails of that last page are accumulated
\* with those of the pages before and go to the removals.
C12_ListingStopsWithoutCursor ==
    \A i \in 1..Len(cleanup_requests) :
        LET r == cleanup_requests[i]
            before == ListRequestsOf(SubSeq(cleanup_requests, 1, i - 1),
                                     r.campaign)
        IN  LastListResponse(r) =>
                /\ \A j \in (i + 1)..Len(cleanup_requests) :
                       ~(/\ cleanup_requests[j].kind = "list"
                         /\ cleanup_requests[j].campaign = r.campaign)
                /\ r.held = (IF before = <<>> THEN <<>>
                             ELSE before[Len(before)].held) \o r.emails
                /\ (i < Len(cleanup_requests) /\ r.held # <<>>) =>
                       /\ cleanup_requests[i + 1].kind = "remove"
                       /\ cleanup_requests[i + 1].campaign = r.campaign
                       /\ cleanup_requests[i + 1].held = r.held
                /\ (i = Len(cleanup_requests) /\ r.held # <<>>) =>
                       /\ cleanup_pc = "remove"
                       /\ emails_to_delete = r.held

\* C12 witness: a single page of leads with a null cursor: after the one list
\* request its emails wait for removal.
C12_Witness ==
    /\ Len(cleanup_requests) = 1
    /\ cleanup_requests[1].kind = "list"
    /\ cleanup_requests[1].cursor = "null"
    /\ Len(cleanup_requests[1].emails) = MaxPageLeads
    /\ cleanup_pc = "remove"
    /\ Len(emails_to_delete) = MaxPageLeads

RECURSIVE SizeOfRemoved(_)
\* The sum of the sizes of the removal batches answered with HTTP 200.
SizeOfRemoved(reqs) ==
    IF reqs = <<>> THEN 0
    ELSE (IF reqs[1].kind = "remove" /\ reqs[1].status = 200
          THEN Len(reqs[1].emails) ELSE 0) + SizeOfRemoved(Tail(reqs))

\* The campaign at position k is behind the campaign loop.
CampaignDone(k) ==
    cleanup_pc = "returned" \/ (cleanup_pc # "raised" /\ campaign_at > k)

\* C13: the accumulated emails of a campaign are removed in consecutive
\* batches of at most 100; the count kept and returned is the sum of the
\* sizes of the batches answered with 200; an answer other than 200 adds
\* nothing and does not raise, and all batches of every campaign with an id
\* are requested.
C13_RemovalAccounting ==
    /\ deleted_count = SizeOfRemoved(cleanup_requests)
    /\ cleanup_pc = "returned" =>
           cleanup_return = SizeOfRemoved(cleanup_requests)
    /\ \A k \in 1..Len(CleanupCampaignIds(cleanup_env)) :
           LET removals == RemovalsOf(cleanup_requests, k)
               listed == ListedOf(cleanup_requests, k)
           IN  /\ \A j \in 1..Len(removals) :
                      /\ removals[j].emails # <<>>
                      /\ Len(removals[j].emails) <= 100
                      /\ removals[j].emails =
                             Slice(listed, (j - 1) * 100, j * 100)
               /\ (CleanupCampaignIds(cleanup_env)[k] /\ CampaignDone(k)) =>
                      Len(removals) * 100 >= Len(listed)
    /\ (/\ cleanup_requests # <<>>
        /\ cleanup_requests[Len(cleanup_requests)].kind = "remove"
        /\ cleanup_requests[Len(cleanup_requests)].status \in RemoveStatuses)
           => cleanup_pc # "raised"

\* C13 witness: the first campaign listed more than 100 emails; its first
\* batch was answered with 500 and its second with 200; the second campaign
\* was handled too, and the call returned what the 200 answers removed.
C13_Witness ==
    /\ cleanup_pc = "returned"
    /\ Len(RemovalsOf(cleanup_requests, 1)) = 2
    /\ RemovalsOf(cleanup_requests, 1)[1].status = 500
    /\ RemovalsOf(cleanup_requests, 1)[2].status = 200
    /\ RemovalsOf(cleanup_requests, 2) # <<>>
    /\ cleanup_return > 0
    /\ cleanup_return < Len(ListedOf(cleanup_requests, 1))
                            + Len(ListedOf(cleanup_requests, 2))

\* C25: a list request answered with an HTTP error status is the last request
\* of the call: the call has raised, no list or remove request follows, for
\* this campaign or a later one, and no count is returned.
C25_ListErrorIsFatal ==
    \A i \in 1..Len(cleanup_requests) :
        (/\ cleanup_requests[i].kind = "list"
         /\ cleanup_requests[i].status \in ListErrors) =>
            /\ i = Len(cleanup_requests)
            /\ cleanup_pc = "raised"
            /\ cleanup_return = NoReturn

\* C25 witness: the first of two campaigns had emails accumulated from a page
\* with a cursor when its next list request was answered with an error; the
\* accumulated emails were not removed.
C25_Witness ==
    /\ cleanup_pc = "raised"
    /\ Len(CleanupCampaignIds(cleanup_env)) = 2
    /\ Len(cleanup_requests) = 2
    /\ cleanup_requests[2].kind = "list"
    /\ cleanup_requests[2].campaign = 1
    /\ cleanup_requests[2].status \in ListErrors
    /\ cleanup_requests[2].held # <<>>
    /\ emails_to_delete # <<>>

\* main.py lines 24-26, 75-76 and 93: the deleted counter of the summary row
\* of a run whose cleanup has ended: what delete_finished_leads returned, or
\* the initial 0 in the Failed row when it raised.
DeletedCounter ==
    IF cleanup_pc = "returned" THEN cleanup_return ELSE 0

PipelineStages ==
    <<"FETCH", "DEDUPE", "VERIFY", "SPLIT", "UPLOAD", "LOG_PROCESSED",
      "CLEANUP", "LOG_SUCCESS">>

\* The place of a stage in the order of the pipeline.
StageRank(stage) ==
    CHOOSE k \in 1..Len(PipelineStages) : PipelineStages[k] = stage

\* The stage was invoked in the run.
Invoked(stage) == stage \in Range(flow_trace)

\* The stage was invoked and returned.
Returned(stage) ==
    \E i \in 1..Len(flow_trace) : flow_trace[i] = stage /\ raised_at # i

\* A summary row with the status was appended.
Summarised(status) ==
    \E i \in 1..Len(summaries) : summaries[i].status = status

\* C14: a run whose deduplication leaves no new contacts appends the
\* completed (no new leads) summary and invokes none of verification, split,
\* upload, processed-lead logging and cleanup; a run whose verification
\* yields no valid contacts appends the completed (no valid leads) summary
\* and invokes none of split, upload, processed-lead logging and cleanup.
\* Stated of the runs whose services all answer.  (With invalid contacts the
\* write of the invalid leads raises before the summary.)
C14_EarlyEndsAreSummarised ==
    (flow_pc = "end" /\ flow_faults = {}) =>
        /\ (Returned("DEDUPE") /\ flow_contacts.new = <<>>) =>
               /\ Summarised("Completed (No New Leads)")
               /\ \A stage \in {"VERIFY", "SPLIT", "UPLOAD", "LOG_PROCESSED",
                                "CLEANUP"} : ~Invoked(stage)
        /\ (Returned("VERIFY") /\ flow_contacts.valid = <<>>) =>
               /\ Summarised("Completed (No Valid Leads)")
               /\ \A stage \in {"SPLIT", "UPLOAD", "LOG_PROCESSED",
                                "CLEANUP"} : ~Invoked(stage)

\* C15: the stages of a run occur in the order of the pipeline, and once a
\* stage has raised nothing follows but the Failed summary and then the
\* notification.
C15_StagesInOrderUntilFailure ==
    /\ \A i, j \in 1..Len(flow_trace) :
           (/\ i < j
            /\ flow_trace[i] \in Range(PipelineStages)
            /\ flow_trace[j] \in Range(PipelineStages)) =>
               StageRank(flow_trace[i]) < StageRank(flow_trace[j])
    /\ raised_at > 0 =>
           /\ Len(flow_trace) <= raised_at + 2
           /\ \A i \in (raised_at + 1)..Len(flow_trace) :
                  flow_trace[i] \in {"LOG_FAILURE", "NOTIFY"}
           /\ \A i \in (raised_at + 2)..Len(flow_trace) :
                  flow_trace[i] = "NOTIFY"
           /\ flow_pc \in {"log_failure", "notify", "end"}

\* C15 witness: fetch, deduplication, verification and split returned, the
\* upload raised, and the Failed summary and the notification followed.
C15_Witness ==
    /\ flow_pc = "end"
    /\ flow_trace = <<"INIT", "GET_PROCESSED", "FETCH", "DEDUPE", "VERIFY",
                      "SPLIT", "UPLOAD", "LOG_FAILURE", "NOTIFY">>
    /\ raised_at = 7

\* C16: a run in which a stage raised ends with send_error_email called
\* exactly once, after the attempt to write the Failed summary.  (A Failed
\* summary whose write raises leaves the handler before line 96.)
C16_FailureIsNotified ==
    (flow_pc = "end" /\ raised_at > 0) =>
        /\ notified = 1
        /\ flow_trace[Len(flow_trace)] = "NOTIFY"

\* The keys and ids of the three services are set.
RunConfigured ==
    /\ flow_env.apollo
    /\ flow_env.reoon_api_key
    /\ flow_env.instantly_api_key
    /\ flow_env.campaign_ids

\* C17: a configured run with a valid contact whose services all answer
\* reaches the cleanup and ends with a Success summary and no notification.
\* (log_processed_leads reads an attribute __init__ never assigns.)
C17_BatchFailuresStillSucceed ==
    (/\ flow_pc = "end"
     /\ RunConfigured
     /\ PercentInRange(flow_env.split_percent)
     /\ flow_faults = {}
     /\ Returned("VERIFY")
     /\ flow_contacts.valid # <<>>) =>
        /\ Invoked("CLEANUP")
        /\ Summarised("Success")
        /\ notified = 0

\* C20: a run with a key or id of the source, the verification or the
\* destination missing fails, and makes no request to any of the three.
\* (Each stage checks its own credentials when it is reached.)
C20_CredentialsArePreflight ==
    ~RunConfigured =>
        /\ requested \cap {"source", "verification", "destination"} = {}
        /\ flow_pc = "end" => raised_at > 0

\* The statuses of the summary rows of main.py lines 48, 61, 79 and 93.
SummaryStatuses ==
    {"Completed (No New Leads)", "Completed (No Valid Leads)", "Success",
     "Failed"}

\* C21 as stated: a run that built its sheet manager has appended exactly one
\* summary row when it ends, never none.  (The write of the Failed summary
\* can itself be refused by the sheet.)
C21_ExactlyOneSummary ==
    (flow_pc = "end" /\ sheet_manager) => Len(summaries) = 1

\* C21, amended: a run appends at most one summary row, with one of the four
\* statuses, and none without a sheet manager; a run that built its sheet
\* manager ends with exactly one row unless the write of the Failed summary
\* raised, and then with none; a run in which no write to the sheet failed
\* ends with exactly one.
C21_OneSummaryUnlessWriteFails ==
    /\ Len(summaries) <= 1
    /\ \A i \in 1..Len(summaries) : summaries[i].status \in SummaryStatuses
    /\ ~sheet_manager => summaries = <<>>
    /\ (flow_pc = "end" /\ sheet_manager) =>
           /\ Len(summaries) = (IF flow_outcome = "raised" THEN 0 ELSE 1)
           /\ "log_store" \notin flow_faults => Len(summaries) = 1
           /\ flow_trace[Len(flow_trace)] \in
                  {"END_NO_NEW", "END_NO_VALID", "LOG_FAILURE", "NOTIFY"}

\* C21 witness: the write of the no-new-leads summary was refused, the
\* handler wrote the Failed summary, and the run ended with that one row.
C21_Witness ==
    /\ flow_pc = "end"
    /\ sheet_manager
    /\ Invoked("END_NO_NEW")
    /\ Invoked("LOG_FAILURE")
    /\ Len(summaries) = 1
    /\ summaries[1].status = "Failed"

\* The leads of the rows log_processed_leads builds (logger.py lines 75-84)
\* from the list main.py line 72 hands it.  (The append of the rows, line 85,
\* reads an attribute __init__ never assigns.)
ProcessedRows ==
    IF Invoked("LOG_PROCESSED") THEN flow_contacts.valid ELSE <<>>

C26_CountersOrdered ==
    \A i \in 1..Len(summaries) :
        LET c == summaries[i].counts
        IN  /\ c.uploaded <= c.verified
            /\ c.verified <= c.new
            /\ c.new <= c.fetched

\* C26 witness: a Failed row written after the upload, with two contacts
\* verified and one of the two upload batches accepted.
C26_Witness ==
    /\ Len(summaries) = 1
    /\ summaries[1].status = "Failed"
    /\ Invoked("UPLOAD")
    /\ summaries[1].counts.fetched = 2
    /\ summaries[1].counts.verified = 2
    /\ summaries[1].counts.uploaded = 1

=============================================================================
